---- MODULE Spec2Model ----
(***************************************************************************)
(* A model of the RunPod automation scripts (scripts/rpa.py,               *)
(* scripts/_deploy_blender.py, scripts/core/ssh.py).                       *)
(*                                                                         *)
(*   SpecRetry   : the retry decorator of core/ssh.py and the methods of   *)
(*                 SSHManager it decorates                                 *)
(*   Spec        : the command line of rpa.py and _deploy_blender.py       *)
(*                 against the provider API (deploy, the provisioning      *)
(*                 wait, the target resolver and the remote operations     *)
(*                 built on it)                                            *)
(*   SpecTargets : the commands that resolve their target, on an account   *)
(*                 that already holds instances                            *)
(*   SpecIngest  : the ingest command of rpa.py and its classifier         *)
(*   SpecWait    : the provisioning wait of one deploy, with the fairness   *)
(*                 of a sequential loop                                    *)
(*   SpecTerminate : terminate on an account with instances                *)
(*   SpecQuote   : the download command ingest builds for one URL, read by *)
(*                 the local and the remote shell                          *)
(***************************************************************************)
EXTENDS Integers, Sequences, FiniteSets, TLC

VARIABLES
    \* ---- retry decorator (core/ssh.py) ----
    r_pc,        \* "idle" | "loop" | "returned" | "raised"
    r_max,       \* max_attempts
    r_delay,     \* delay, a rational <<num, den>>
    r_backoff,   \* backoff, a rational <<num, den>>
    r_attempt,   \* the loop variable attempt (0 before the first iteration)
    r_cur,       \* current_delay
    r_last,      \* last_error
    r_calls,     \* outcomes of the invocations of func, in order
    r_sleeps,    \* arguments of time.sleep, in order
    r_result,    \* what the wrapper returned or raised
    r_log,       \* records written to the logger, in order
    r_op,        \* the decorated function that was called
    r_caller,    \* the method of SSHManager that called it ("-": called directly)
    r_capture,   \* the argument capture of run_command
    r_timeout,   \* whether run_command was given a timeout
    r_runs,      \* what the subprocess.run invocations did, in order
    r_local,     \* the local destination of download_files: "absent" | "present"
                 \* ("-": the call has none)
    \* ---- provider and command line (rpa.py, _deploy_blender.py) ----
    pods,        \* the provider's live instances, in creation order
    next_id,     \* the id the provider gives the next instance
    n_cmds,      \* commands run so far
    d_pc,        \* position of the running command: "idle" | "wait" | "ready" | "done"
    d_cmd,       \* the running command
    d_template,  \* args.template
    d_no_setup,  \* args.no_setup
    d_config,    \* the local variable config (POD_CONFIG in _deploy_blender.py)
    d_creates,   \* create_pod requests of the running deploy and their outcomes
    d_terms,     \* terminate_pod requests of the running command
    d_failed,    \* the step of the setup that failed ("-": none)
    d_seen,      \* ids the listing showed RUNNING under the template's name
    d_existing,  \* the list `existing` computed by the running deploy (ids)
    d_pod,       \* the local variable pod
    d_ssh,       \* ssh_ip / ssh_port derived by the running command
    d_ops,       \* remote operations attempted by the running command, in order
    d_out,       \* what the running command reported
    w_elapsed,   \* seconds slept by the running wait (time.time() - start)
    w_iter,      \* iterations done of the for loop of _deploy_blender.py
    w_seen,      \* "none": no poll succeeded yet; "unreach": every successful
                 \* poll showed RUNNING without a reachable port 22; "other"
    d_inputs,    \* what the operator typed at the prompts of the running command
    d_running,   \* the list `running` of get_running_pod_info (ids)
    \* ---- ingest (rpa.py cmd_ingest) ----
    i_tokens,    \* what the operator pasted, split at blanks and commas
    i_urls,      \* the list urls
    i_ready,     \* the list ready_to_download
    i_review,    \* the list needs_review
    i_next,      \* the next element of needs_review to be reviewed
    i_downloads, \* the remote downloads issued, in order
    \* ---- the download command of ingest (rpa.py 603-610, 633-637) ----
    q_pc,        \* "url" | "built" | "local" | "remote" | "escaped"
    q_url,       \* the URL, character by character
    q_cmd,       \* the string ssh_cmd given to os.system
    q_arg,       \* the argument the local shell gave ssh
    q_word,      \* the last argument the remote shell gave wget
    q_syntax,    \* the shells that read a character of the URL as syntax
    \* ---- terminate (rpa.py cmd_terminate) ----
    t_pid,       \* the id the confirmation prompt named (0: no prompt)
    t_confirm,   \* what the operator answered at the prompt ("-": no prompt)
    t_req        \* the id given to terminate_pod (0: no request)

rvars == <<r_pc, r_max, r_delay, r_backoff, r_attempt, r_cur, r_last, r_calls,
           r_sleeps, r_result, r_log, r_op, r_caller, r_capture, r_timeout, r_runs,
           r_local>>
dvars == <<pods, next_id, n_cmds, d_pc, d_cmd, d_template, d_no_setup, d_config,
           d_creates, d_terms, d_failed, d_seen, d_existing, d_pod, d_ssh, d_ops, d_out,
           w_elapsed, w_iter, w_seen, d_inputs, d_running>>
ivars == <<i_tokens, i_urls, i_ready, i_review, i_next, i_downloads>>
qvars == <<q_pc, q_url, q_cmd, q_arg, q_word, q_syntax>>
tvars == <<t_pid, t_confirm, t_req>>
vars == <<rvars, dvars, ivars, qvars, tvars>>

-----------------------------------------------------------------------------
(* Bounds of the model *)

\* largest max_attempts a retry call is given
MaxAttempts == 3
\* instances an account holds before the first command
MaxPods == 3
\* links pasted into one ingest
MaxUrls == 2
\* commands run one after another against the same provider account
MaxCmds == 2

-----------------------------------------------------------------------------
(* Rationals <<num, den>> with den > 0 stand for Python floats *)

Rat(n, d) == <<n, d>>
RatEq(a, b) == a[1] * b[2] = b[1] * a[2]
RatMul(a, b) == <<a[1] * b[1], a[2] * b[2]>>

RECURSIVE RatPow(_, _)
RatPow(a, n) == IF n = 0 THEN <<1, 1>> ELSE RatMul(a, RatPow(a, n - 1))

-----------------------------------------------------------------------------
(* The retry decorator: core/ssh.py, retry *)

NoOutcome == [kind |-> "none", etype |-> "-", msg |-> "-"]

\* what one invocation of the wrapped function does: return a value, raise an
\* Exception, or raise a BaseException that is no Exception
Returns == {[kind |-> "ok", etype |-> "-", msg |-> v] : v \in {"v1", "v2"}}
Exceptions ==
    {[kind |-> "exc", etype |-> "TimeoutExpired", msg |-> "timed out"],
     [kind |-> "exc", etype |-> "CalledProcessError", msg |-> "exit 1"],
     [kind |-> "exc", etype |-> "CalledProcessError", msg |-> "exit 255"]}
BaseExceptions == {[kind |-> "base", etype |-> "KeyboardInterrupt", msg |-> "-"]}
Outcomes == Returns \cup Exceptions \cup BaseExceptions

\* the parameters the decorator is applied with (ssh.py 76, 101, 116) and
\* others of the same shape; the default backoff is 1.5
RetryMaxes == 1..MaxAttempts
RetryDelays == {Rat(2, 1), Rat(1, 1)}
RetryBackoffs == {Rat(3, 2), Rat(2, 1)}

\* ssh.py 32: last_error = e
LastErrorKeepsFirst(prev, e) == IF prev = NoOutcome THEN e ELSE prev
LastError(prev, e) == e

\* ssh.py 37: current_delay *= backoff
NextDelayAdds(cur, backoff) == <<cur[1] + backoff[1], cur[2]>>
NextDelay(cur, backoff) == RatMul(cur, backoff)

\* ssh.py 33: if attempt < max_attempts
SleepsAfterLast(attempt, max) == attempt <= max
SleepsAfter(attempt, max) == attempt < max

-----------------------------------------------------------------------------
(* The decorated methods of SSHManager: core/ssh.py 66-151 *)

\* ssh.py 76, 101, 116: the arguments of @retry on run_command, upload_file
\* and download_files; backoff keeps its default 1.5
DecorationAllDefault(op) == [max |-> 3, delay |-> Rat(2, 1), backoff |-> Rat(3, 2)]
Decoration(op) ==
    IF op = "run_command"
    THEN [max |-> 3, delay |-> Rat(2, 1), backoff |-> Rat(3, 2)]
    ELSE [max |-> 2, delay |-> Rat(1, 1), backoff |-> Rat(3, 2)]

\* a call of a decorated function: which one, the method of SSHManager that
\* made the call, and the arguments capture and timeout it passed
Call(op, caller, capture, timeout) ==
    [op |-> op, caller |-> caller, capture |-> capture, timeout |-> timeout]

\* a decorated function of any behaviour; run_command called directly, by
\* run_background (ssh.py 99), check_file_exists (135-140) and
\* check_process_running (145-150); upload_file and download_files
Calls ==
    {Call("func", "-", FALSE, FALSE)}
    \cup {Call("run_command", "-", c, t) : c \in BOOLEAN, t \in BOOLEAN}
    \cup {Call("run_command", "run_background", FALSE, TRUE)}
    \cup {Call("run_command", f, TRUE, TRUE) :
             f \in {"check_file_exists", "check_process_running"}}
    \cup {Call(f, "-", FALSE, FALSE) : f \in {"upload_file", "download_files"}}

\* what ssh or scp did in one subprocess.run: it exited with a code (255 is
\* ssh's own: it could not connect), it outlived the timeout, or it was
\* interrupted; stdout is what was captured ("-": nothing was); started tells
\* whether the remote side started the work
Run(kind, code, stdout, started) ==
    [kind |-> kind, code |-> code, stdout |-> stdout, started |-> started]

NoRun == Run("-", -1, "-", FALSE)

Runs(capture, timeout) ==
    {Run("exit", 0, s, TRUE) : s \in IF capture THEN {"YES", "NO", ""} ELSE {"-"}}
    \cup {Run("exit", 1, IF capture THEN "" ELSE "-", TRUE)}
    \cup {Run("exit", 255, IF capture THEN "" ELSE "-", FALSE)}
    \cup (IF timeout THEN {Run("timeout", -1, "-", st) : st \in BOOLEAN} ELSE {})
    \cup {Run("interrupt", -1, "-", st) : st \in BOOLEAN}

\* ssh.py 114, 131: check=True; 87-93: run_command passes no check
Checks(op) == op \in {"upload_file", "download_files"}

\* subprocess.run(..., check=check): the CompletedProcess it returns or what
\* it raises
SubprocessRun(run, check) ==
    CASE run.kind = "timeout" ->
           [kind |-> "exc", etype |-> "TimeoutExpired", msg |-> "timed out"]
      [] run.kind = "interrupt" ->
           [kind |-> "base", etype |-> "KeyboardInterrupt", msg |-> "-"]
      [] run.kind = "exit" /\ check /\ run.code # 0 ->
           [kind |-> "exc", etype |-> "CalledProcessError",
            msg |-> IF run.code = 1 THEN "exit 1" ELSE "exit 255"]
      [] OTHER ->
           [kind |-> "ok", etype |-> "CompletedProcess",
            msg |-> CASE run.code = 0 -> "returncode 0"
                      [] run.code = 1 -> "returncode 1"
                      [] OTHER -> "returncode 255"]

\* ssh.py 30: func(*args, **kwargs), what one invocation can do
Invocations ==
    IF r_op = "func"
    THEN {[run |-> NoRun, out |-> o] : o \in Outcomes}
    ELSE {[run |-> x, out |-> SubprocessRun(x, Checks(r_op))] :
             x \in Runs(r_capture, r_timeout)}

RunsAfter(runs, run) == IF run = NoRun THEN runs ELSE Append(runs, run)

\* ssh.py 126-131: download_files builds the scp command and runs it, and
\* does nothing else to local_path; an scp that copied into an absent
\* destination has created it
LocalAfter(local, run) ==
    IF local = "absent" /\ run.kind = "exit" /\ run.code = 0 THEN "present" ELSE local

\* ssh.py 141, 151: what check_file_exists and check_process_running make of
\* the CompletedProcess that run_command returned
CheckValue(caller, run) ==
    IF caller = "check_file_exists" THEN run.stdout = "YES" ELSE run.stdout # ""

RetryInit ==
    /\ r_pc = "idle"
    /\ r_max = 0
    /\ r_delay = Rat(0, 1)
    /\ r_backoff = Rat(1, 1)
    /\ r_attempt = 0
    /\ r_cur = Rat(0, 1)
    /\ r_last = NoOutcome
    /\ r_calls = <<>>
    /\ r_sleeps = <<>>
    /\ r_result = NoOutcome
    /\ r_log = <<>>
    /\ r_op = "-"
    /\ r_caller = "-"
    /\ r_capture = FALSE
    /\ r_timeout = FALSE
    /\ r_runs = <<>>
    /\ r_local = "-"

\* what a call leaves alone once it was made
Called == UNCHANGED <<r_max, r_delay, r_backoff, r_op, r_caller, r_capture, r_timeout>>

\* ssh.py 20-26: a decorated function is called
RetryCall ==
    /\ r_pc = "idle"
    /\ \E c \in Calls, m \in RetryMaxes, d \in RetryDelays, b \in RetryBackoffs,
          dir \in {"absent", "present"} :
          LET given == IF c.op = "func"
                       THEN [max |-> m, delay |-> d, backoff |-> b]
                       ELSE Decoration(c.op)
          IN
          /\ r_op' = c.op
          /\ r_caller' = c.caller
          /\ r_capture' = c.capture
          /\ r_timeout' = c.timeout
          /\ r_local' = IF c.op = "download_files" THEN dir ELSE "-"
          /\ r_max' = given.max
          /\ r_delay' = given.delay
          /\ r_backoff' = given.backoff
          /\ r_cur' = given.delay
    /\ r_last' = NoOutcome
    /\ r_attempt' = 0
    /\ r_pc' = "loop"
    /\ UNCHANGED <<r_calls, r_sleeps, r_result, r_log, r_runs>>

\* ssh.py 28-39: one iteration of the for loop whose func() returns
RetryAttemptOk ==
    /\ r_pc = "loop"
    /\ r_attempt < r_max
    /\ \E inv \in Invocations :
          /\ inv.out.kind = "ok"
          /\ r_calls' = Append(r_calls, inv.out)
          /\ r_runs' = RunsAfter(r_runs, inv.run)
          /\ r_local' = LocalAfter(r_local, inv.run)
          /\ r_result' = inv.out
    /\ r_attempt' = r_attempt + 1
    /\ r_pc' = "returned"
    /\ Called
    /\ UNCHANGED <<r_cur, r_last, r_sleeps, r_log>>

\* ssh.py 28-39: one iteration whose func() raises an Exception
RetryAttemptFail ==
    /\ r_pc = "loop"
    /\ r_attempt < r_max
    /\ \E inv \in Invocations :
          LET a == r_attempt + 1
              e == inv.out
          IN
          /\ e.kind = "exc"
          /\ r_calls' = Append(r_calls, e)
          /\ r_runs' = RunsAfter(r_runs, inv.run)
          /\ r_local' = LocalAfter(r_local, inv.run)
          /\ r_last' = LastError(r_last, e)
          /\ r_attempt' = a
          /\ IF SleepsAfter(a, r_max)
             THEN /\ r_log' = r_log \o <<[level |-> "warning", attempt |-> a, err |-> e],
                                         [level |-> "warning", attempt |-> a, err |-> NoOutcome]>>
                  /\ r_sleeps' = Append(r_sleeps, r_cur)
                  /\ r_cur' = NextDelay(r_cur, r_backoff)
             ELSE /\ r_log' = Append(r_log, [level |-> "error", attempt |-> a, err |-> NoOutcome])
                  /\ UNCHANGED <<r_sleeps, r_cur>>
    /\ Called
    /\ UNCHANGED <<r_pc, r_result>>

\* ssh.py 30-31: func() raises something `except Exception` does not catch
RetryAttemptInterrupted ==
    /\ r_pc = "loop"
    /\ r_attempt < r_max
    /\ \E inv \in Invocations :
          /\ inv.out.kind = "base"
          /\ r_calls' = Append(r_calls, inv.out)
          /\ r_runs' = RunsAfter(r_runs, inv.run)
          /\ r_local' = LocalAfter(r_local, inv.run)
          /\ r_result' = inv.out
    /\ r_attempt' = r_attempt + 1
    /\ r_pc' = "raised"
    /\ Called
    /\ UNCHANGED <<r_cur, r_last, r_sleeps, r_log>>

\* ssh.py 41: raise last_error, after the loop
RetryRaise ==
    /\ r_pc = "loop"
    /\ r_attempt >= r_max
    /\ r_result' = r_last
    /\ r_pc' = "raised"
    /\ Called
    /\ UNCHANGED <<r_attempt, r_cur, r_last, r_calls, r_sleeps, r_log, r_runs, r_local>>

-----------------------------------------------------------------------------
(* Templates and pod configurations: rpa.py 41-103, _deploy_blender.py 13-24 *)

Templates == {"prod", "value", "budget"}

\* rpa.py 41-67: TEMPLATES
TEMPLATES(t) ==
    CASE t = "prod" ->
           [name |-> "ltx2-comfyui-prod", gpu_type_id |-> "NVIDIA RTX A6000",
            cloud_type |-> "SECURE", script |-> "start.sh",
            setup_script |-> "setup_models.py"]
      [] t = "value" ->
           [name |-> "ltx2-comfyui-value", gpu_type_id |-> "NVIDIA A40",
            cloud_type |-> "COMMUNITY", script |-> "start.sh",
            setup_script |-> "setup_models.py"]
      [] t = "budget" ->
           [name |-> "hunyuan-comfyui-budget", gpu_type_id |-> "NVIDIA RTX A5000",
            cloud_type |-> "SECURE", script |-> "start_budget.sh",
            setup_script |-> "setup_hunyuan.py"]

\* rpa.py 85-103: get_pod_config (min_memory_in_gb 0: the key is absent)
get_pod_config(t) ==
    [name |-> TEMPLATES(t).name,
     gpu_type_id |-> TEMPLATES(t).gpu_type_id,
     cloud_type |-> TEMPLATES(t).cloud_type,
     min_memory_in_gb |-> 0,
     volume_in_gb |-> 150,
     container_disk_in_gb |-> 40,
     ports |-> "8888/http,8188/http,3000/http,22/tcp",
     volume_mount_path |-> "/workspace"]

\* _deploy_blender.py 13-24: POD_CONFIG
POD_CONFIG ==
    [name |-> "blender-workstation",
     gpu_type_id |-> "NVIDIA RTX A6000",
     cloud_type |-> "SECURE",
     min_memory_in_gb |-> 70,
     volume_in_gb |-> 150,
     container_disk_in_gb |-> 40,
     ports |-> "3000/http,5901/http,22/tcp",
     volume_mount_path |-> "/workspace"]

NoConfig ==
    [name |-> "-", gpu_type_id |-> "-", cloud_type |-> "-", min_memory_in_gb |-> 0,
     volume_in_gb |-> 0, container_disk_in_gb |-> 0, ports |-> "-",
     volume_mount_path |-> "-"]

-----------------------------------------------------------------------------
(* Instance records as the provider API returns them *)

Status == {"PENDING", "RUNNING", "STOPPED"}

NoIp == "-"

Mapping(private, public, ip, reachable) ==
    [privatePort |-> private, publicPort |-> public, ip |-> ip, isIpPublic |-> reachable]

\* what a record carries besides id, name and desiredStatus: whether
\* "runtime" is set, its "ports", and machine.podHostId ("-": the key is absent)
Shape(hasRuntime, ports, host) == [runtime |-> hasRuntime, ports |-> ports, host |-> host]

Shapes ==
    {Shape(FALSE, <<>>, "abc123"),
     Shape(FALSE, <<>>, "-"),
     Shape(TRUE, <<>>, "abc123"),
     Shape(TRUE, <<Mapping(8888, 18888, "203.0.113.7", TRUE)>>, "abc123"),
     Shape(TRUE, <<Mapping(22, 10022, "10.0.0.5", FALSE)>>, "abc123"),
     Shape(TRUE, <<Mapping(22, 10022, "203.0.113.7", TRUE)>>, "abc123"),
     Shape(TRUE, <<Mapping(22, 10022, NoIp, TRUE)>>, "abc123"),
     Shape(TRUE, <<Mapping(22, 10022, NoIp, TRUE)>>, "-"),
     Shape(TRUE, <<Mapping(22, 10022, "10.0.0.5", FALSE),
                   Mapping(22, 10023, "203.0.113.7", TRUE)>>, "abc123"),
     Shape(TRUE, <<Mapping(8888, 18888, "203.0.113.7", TRUE),
                   Mapping(22, 10022, "203.0.113.7", TRUE)>>, "abc123")}

Record(id, name, status, shape) ==
    [id |-> id, name |-> name, desiredStatus |-> status, runtime |-> shape.runtime,
     ports |-> shape.ports, host |-> shape.host]

NoPod == Record(0, "-", "-", Shape(FALSE, <<>>, "-"))

\* no instance id: args.pod_id not given, pid not set
NoPid == NoPod.id

\* the records get_pod(id) can return for a live instance
Snapshots(p) == {Record(p.id, p.name, st, sh) : st \in Status, sh \in Shapes}

\* section 3 of the specification: a record is usable when its desired status is
\* RUNNING and a port mapping with private port 22 is publicly reachable
Usable(rec) ==
    /\ rec.desiredStatus = "RUNNING"
    /\ \E i \in DOMAIN rec.ports :
          rec.ports[i].privatePort = 22 /\ rec.ports[i].isIpPublic

-----------------------------------------------------------------------------
(* Program constants *)

\* rpa.py 105: timeout=300
Timeout == 300
\* rpa.py 123, _deploy_blender.py 51/60/63: time.sleep(5)
PollSleep == 5
\* rpa.py 113: time.sleep(2)
ErrorSleep == 2
\* _deploy_blender.py 47: range(60)
BlenderPolls == 60

-----------------------------------------------------------------------------
(* The provider API: runpod.get_pods, get_pod, create_pod *)

NoShape == Shape(FALSE, <<>>, "-")

\* get_pods(): every live instance with the desired status it has at the
\* moment of the call; shapeOf gives what else the records carry
Listing(st, shapeOf) ==
    [i \in 1..Len(pods) |-> Record(pods[i].id, pods[i].name, st[i], shapeOf[i])]

Statuses == [1..Len(pods) -> Status]

\* a listing whose callers read id, name and desiredStatus alone
PlainListing(st) == Listing(st, [i \in 1..Len(pods) |-> NoShape])

\* create_pod(**config) answered by the provider: the new instance
Created(config) == [id |-> next_id, name |-> config.name]

\* a create_pod(**config) request and whether the provider raised on it
Request(config, raised) == [config |-> config, raised |-> raised]

-----------------------------------------------------------------------------
(* Deploy: rpa.py cmd_deploy and wait_for_pod *)

\* rpa.py 140: existing = [p for p in pods if name matches and RUNNING]
ExistingNone(listing, name) == <<>>
Existing(listing, name) ==
    SelectSeq(listing, LAMBDA p : p.name = name /\ p.desiredStatus = "RUNNING")

\* rpa.py 151: if t["cloud_type"] == "COMMUNITY"
FallsBackNever(t) == FALSE
FallsBack(t) == TEMPLATES(t).cloud_type = "COMMUNITY"

\* rpa.py 153: config["cloud_type"] = "SECURE"
FallbackConfig(config) == [config EXCEPT !.cloud_type = "SECURE"]

\* rpa.py 116-122: the record ends the wait
WaitAcceptsRunning(pod) == pod.desiredStatus = "RUNNING"
WaitAcceptsAnyPort22(pod) ==
    /\ pod.desiredStatus = "RUNNING"
    /\ \E i \in DOMAIN pod.ports : pod.ports[i].privatePort = 22
WaitAccepts(pod) ==
    /\ pod.desiredStatus = "RUNNING"
    /\ \E i \in DOMAIN pod.ports :
          pod.ports[i].privatePort = 22 /\ pod.ports[i].isIpPublic

\* '<podHostId>.runpod.io', 'unknown' when machine has no podHostId
HostName(host) == IF host = "-" THEN "unknown.runpod.io" ELSE "abc123.runpod.io"

\* rpa.py 166-178 and 247-259: ssh_ip and ssh_port from the first mapping
\* whose private port is 22
SshOfDefaults(pod) == [ip |-> HostName(pod.host), port |-> 22]
SshOf(pod) ==
    LET idx == {i \in DOMAIN pod.ports : pod.ports[i].privatePort = 22} IN
    IF idx = {}
    THEN [ip |-> HostName(pod.host), port |-> 22]
    ELSE LET p == pod.ports[CHOOSE i \in idx : \A j \in idx : i <= j] IN
         [ip |-> IF p.ip = NoIp THEN HostName(pod.host) ELSE p.ip,
          port |-> p.publicPort]

NoSsh == [ip |-> "-", port |-> 0]

\* a remote operation as attempted: what it does, with which address and
\* port, and whether the record the address was derived from is usable
Op(kind, arg, ssh, pod) ==
    [op |-> kind, arg |-> arg, ip |-> ssh.ip, port |-> ssh.port, usable |-> Usable(pod)]

\* the status of the successful polls of a wait, after one more
SeenAfter(seen, rec) ==
    IF rec.desiredStatus = "RUNNING" /\ ~Usable(rec)
    THEN (IF seen = "other" THEN "other" ELSE "unreach")
    ELSE "other"

\* no command is running
NoCommand ==
    /\ d_pc = "idle"
    /\ d_cmd = "-"
    /\ d_template = "-"
    /\ d_no_setup = FALSE
    /\ d_config = NoConfig
    /\ d_creates = <<>>
    /\ d_terms = 0
    /\ d_failed = "-"
    /\ d_seen = {}
    /\ d_existing = <<>>
    /\ d_pod = NoPod
    /\ d_ssh = NoSsh
    /\ d_ops = <<>>
    /\ d_out = "-"
    /\ w_elapsed = 0
    /\ w_iter = 0
    /\ w_seen = "none"
    /\ d_inputs = <<>>
    /\ d_running = <<>>
    /\ i_tokens = <<>>
    /\ i_urls = <<>>
    /\ i_ready = <<>>
    /\ i_review = <<>>
    /\ i_next = 1
    /\ i_downloads = <<>>
    /\ t_pid = NoPid
    /\ t_confirm = "-"
    /\ t_req = NoPid

\* an account without instances, no command run yet
DeployInit ==
    /\ pods = <<>>
    /\ next_id = 1
    /\ n_cmds = 0
    /\ NoCommand

\* the names the scripts give their instances (rpa.py 43, 51, 59,
\* _deploy_blender.py 14)
NameOf(i) ==
    CASE i % 4 = 1 -> "ltx2-comfyui-prod"
      [] i % 4 = 2 -> "ltx2-comfyui-value"
      [] i % 4 = 3 -> "hunyuan-comfyui-budget"
      [] OTHER -> "blender-workstation"

\* accounts that hold instances of earlier deploys
Accounts == {[i \in 1..n |-> [id |-> i, name |-> NameOf(i)]] : n \in 0..MaxPods}

\* an account as earlier deploys left it, no command run yet
TargetsInit ==
    /\ pods \in Accounts
    /\ next_id = Len(pods) + 1
    /\ n_cmds = 0
    /\ NoCommand

\* what a command leaves alone until it waits
NotYetWaiting == UNCHANGED <<d_no_setup, d_terms, d_failed, d_ssh, d_ops, w_elapsed, w_iter, w_seen, d_inputs, d_running>>

\* rpa.py 126-156: cmd_deploy up to the wait
CmdDeploy ==
    /\ d_pc = "idle"
    /\ n_cmds < MaxCmds
    /\ n_cmds' = n_cmds + 1
    /\ d_cmd' = "deploy"
    /\ NotYetWaiting
    /\ \E t \in Templates :
          LET config == get_pod_config(t) IN
          /\ d_template' = t
          /\ \/ \* 139: get_pods() raises, nothing catches it
                /\ d_config' = config
                /\ d_pc' = "done"
                /\ d_out' = "provider_error"
                /\ UNCHANGED <<pods, next_id, d_creates, d_seen, d_existing, d_pod>>
             \/ \E st \in Statuses :
                   LET listing == PlainListing(st)
                       existing == Existing(listing, config.name)
                   IN
                   /\ d_seen' = {listing[i].id : i \in
                                    {j \in DOMAIN listing :
                                        /\ listing[j].name = config.name
                                        /\ listing[j].desiredStatus = "RUNNING"}}
                   /\ d_existing' = [i \in DOMAIN existing |-> existing[i].id]
                   /\ IF existing # <<>>
                      THEN \* 142-144: reuse
                           /\ d_pod' = existing[1]
                           /\ d_config' = config
                           /\ d_pc' = "wait"
                           /\ d_out' = "-"
                           /\ UNCHANGED <<pods, next_id, d_creates>>
                      ELSE \* 145-156: create, with the one fallback
                           \E ok1 \in BOOLEAN, ok2 \in BOOLEAN :
                              LET config2 == FallbackConfig(config)
                                  new == Created(config)
                              IN
                              IF ok1
                              THEN /\ pods' = Append(pods, new)
                                   /\ next_id' = next_id + 1
                                   /\ d_creates' = <<Request(config, FALSE)>>
                                   /\ d_config' = config
                                   /\ d_pod' = Record(new.id, new.name, "PENDING", NoShape)
                                   /\ d_pc' = "wait"
                                   /\ d_out' = "-"
                              ELSE IF ~FallsBack(t)
                              THEN /\ d_creates' = <<Request(config, TRUE)>>
                                   /\ d_config' = config
                                   /\ d_pc' = "done"
                                   /\ d_out' = "create_failed"
                                   /\ UNCHANGED <<pods, next_id, d_pod>>
                              ELSE IF ok2
                              THEN /\ pods' = Append(pods, new)
                                   /\ next_id' = next_id + 1
                                   /\ d_creates' = <<Request(config, TRUE), Request(config2, FALSE)>>
                                   /\ d_config' = config2
                                   /\ d_pod' = Record(new.id, new.name, "PENDING", NoShape)
                                   /\ d_pc' = "wait"
                                   /\ d_out' = "-"
                              ELSE /\ d_creates' = <<Request(config, TRUE), Request(config2, TRUE)>>
                                   /\ d_config' = config2
                                   /\ d_pc' = "done"
                                   /\ d_out' = "provider_error"
                                   /\ UNCHANGED <<pods, next_id, d_pod>>

\* what the wait leaves alone
Waiting == UNCHANGED <<pods, next_id, n_cmds, d_cmd, d_template, d_no_setup, d_config,
                       d_creates, d_terms, d_failed, d_seen, d_existing, d_ssh, d_ops,
                       d_inputs, d_running>>

\* the live instance the wait polls
Polled == CHOOSE p \in {pods[i] : i \in DOMAIN pods} : p.id = d_pod.id

\* rpa.py 108, 113, 123: time.time() - start after a time.sleep(secs)
SleptNothing(elapsed, secs) == elapsed
Slept(elapsed, secs) == elapsed + secs

\* rpa.py 111-114: except Exception: print, sleep, continue
OnPollErrorRaises ==
    /\ d_pc' = "done"
    /\ d_out' = "provider_error"
    /\ UNCHANGED w_elapsed
OnPollError ==
    /\ w_elapsed' = Slept(w_elapsed, ErrorSleep)
    /\ UNCHANGED <<d_pc, d_out>>

\* rpa.py 108-114: a poll that raises is slept over
WaitPollError ==
    /\ d_pc = "wait"
    /\ d_cmd = "deploy"
    /\ w_elapsed < Timeout
    /\ OnPollError
    /\ Waiting
    /\ UNCHANGED <<d_pod, w_iter, w_seen>>

\* rpa.py 108-123: a poll that answers
WaitPoll ==
    /\ d_pc = "wait"
    /\ d_cmd = "deploy"
    /\ w_elapsed < Timeout
    /\ \E rec \in Snapshots(Polled) :
          /\ w_seen' = SeenAfter(w_seen, rec)
          /\ IF WaitAccepts(rec)
             THEN /\ d_pod' = rec
                  /\ d_pc' = "ready"
                  /\ w_elapsed' = 0
             ELSE /\ w_elapsed' = Slept(w_elapsed, PollSleep)
                  /\ UNCHANGED <<d_pc, d_pod>>
    /\ Waiting
    /\ UNCHANGED <<d_out, w_iter>>

\* rpa.py 160-162: except TimeoutError: print, return
DeployTimeoutTerminates ==
    /\ pods' = SelectSeq(pods, LAMBDA p : p.id # d_pod.id)
    /\ d_terms' = d_terms + 1
    /\ UNCHANGED d_failed
    /\ d_out' = "timed_out"
    /\ d_pc' = "done"
DeployTimeout ==
    /\ d_out' = "timed_out"
    /\ d_pc' = "done"
    /\ UNCHANGED <<pods, d_terms, d_failed>>

\* rpa.py 108, 124: the loop ends, wait_for_pod raises TimeoutError
WaitTimeout ==
    /\ d_pc = "wait"
    /\ d_cmd = "deploy"
    /\ ~(w_elapsed < Timeout)
    /\ DeployTimeout
    /\ UNCHANGED <<next_id, n_cmds, d_cmd, d_template, d_no_setup, d_config, d_creates,
                   d_seen, d_existing, d_pod, d_ssh, d_ops, w_elapsed, w_iter, w_seen, d_inputs, d_running>>

\* the remote operations of the setup: uploads of the files that exist, then
\* the launch of the start script
RECURSIVE Uploads(_, _, _, _)
Uploads(files, exists, ssh, pod) ==
    IF files = <<>> THEN <<>>
    ELSE (IF Head(exists) THEN <<Op("upload", Head(files), ssh, pod)>> ELSE <<>>)
         \o Uploads(Tail(files), Tail(exists), ssh, pod)

\* rpa.py 181: if not args.no_setup
RunsSetupAlways(no_setup) == TRUE
RunsSetup(no_setup) == ~no_setup

\* rpa.py 198-208, _deploy_blender.py 86-93: the operations of the setup run
\* in order, each with check=True, so the first one whose scp or ssh exits
\* non-zero raises CalledProcessError. The launch is "chmod +x F && nohup F
\* ... & sleep 1": the remote shell puts chmod and the script in the
\* background, and the exit status ssh hands back is that of sleep, whether
\* or not the script was started.
SetupRunsUnchecked(planned) ==
    \E failed \in 0..Len(planned), started \in BOOLEAN :
       /\ d_ops' = planned
       /\ d_out' = "complete"
       /\ d_failed' = IF failed # 0 THEN planned[failed].op
                      ELSE IF started THEN "-" ELSE "launch"
SetupRuns(planned) ==
    \E failed \in 0..Len(planned), started \in BOOLEAN :
       /\ d_ops' = IF failed = 0 THEN planned ELSE SubSeq(planned, 1, failed)
       /\ d_out' = IF failed = 0 THEN "complete" ELSE "called_process_error"
       /\ d_failed' = IF failed # 0 THEN planned[failed].op
                      ELSE IF started THEN "-" ELSE "launch"

\* rpa.py 164-214: descriptor, setup, report
DeployProvision ==
    /\ d_pc = "ready"
    /\ d_cmd = "deploy"
    /\ LET ssh == SshOf(d_pod)
           t == TEMPLATES(d_template)
           files == <<t.script, t.setup_script, ".env">>
       IN
       /\ d_ssh' = ssh
       /\ \E ns \in BOOLEAN :
             /\ d_no_setup' = ns
             /\ IF RunsSetup(ns)
                THEN \E exists \in [1..3 -> BOOLEAN] :
                        SetupRuns(Uploads(files, exists, ssh, d_pod)
                                    \o <<Op("launch", t.script, ssh, d_pod)>>)
                ELSE /\ d_ops' = <<>>
                     /\ d_out' = "complete"
                     /\ d_failed' = "-"
    /\ d_pc' = "done"
    /\ UNCHANGED <<pods, next_id, n_cmds, d_cmd, d_template, d_config, d_creates,
                   d_terms, d_seen, d_existing, d_pod, w_elapsed, w_iter, w_seen, d_inputs, d_running>>

-----------------------------------------------------------------------------
(* The quick deploy of the Blender workstation: _deploy_blender.py main *)

\* _deploy_blender.py 29: existing
BlenderExisting(listing) ==
    SelectSeq(listing, LAMBDA p : p.name = "blender-workstation" /\ p.desiredStatus = "RUNNING")

\* _deploy_blender.py 41: POD_CONFIG["cloud_type"] = "COMMUNITY"
BlenderFallbackConfig(config) == [config EXCEPT !.cloud_type = "COMMUNITY"]

\* _deploy_blender.py 54-62: the record ends the wait
BlenderAccepts(pod) ==
    /\ pod.desiredStatus = "RUNNING"
    /\ \E i \in DOMAIN pod.ports :
          pod.ports[i].privatePort = 22 /\ pod.ports[i].isIpPublic

\* _deploy_blender.py 26-45: main up to the wait
CmdBlender ==
    /\ d_pc = "idle"
    /\ n_cmds < MaxCmds
    /\ n_cmds' = n_cmds + 1
    /\ d_cmd' = "blender"
    /\ d_template' = "-"
    /\ NotYetWaiting
    /\ \/ \* 28: get_pods() raises, nothing catches it
          /\ d_config' = POD_CONFIG
          /\ d_pc' = "done"
          /\ d_out' = "provider_error"
          /\ UNCHANGED <<pods, next_id, d_creates, d_seen, d_existing, d_pod>>
       \/ \E st \in Statuses :
             LET listing == PlainListing(st)
                 existing == BlenderExisting(listing)
             IN
             /\ d_seen' = {listing[i].id : i \in
                              {j \in DOMAIN listing :
                                  /\ listing[j].name = POD_CONFIG.name
                                  /\ listing[j].desiredStatus = "RUNNING"}}
             /\ d_existing' = [i \in DOMAIN existing |-> existing[i].id]
             /\ IF existing # <<>>
                THEN \* 31-33: reuse
                     /\ d_pod' = existing[1]
                     /\ d_config' = POD_CONFIG
                     /\ d_pc' = "wait"
                     /\ d_out' = "-"
                     /\ UNCHANGED <<pods, next_id, d_creates>>
                ELSE \* 34-42: create; any failure is retried on COMMUNITY
                     \E ok1 \in BOOLEAN, ok2 \in BOOLEAN :
                        LET config2 == BlenderFallbackConfig(POD_CONFIG)
                            new == Created(POD_CONFIG)
                        IN
                        IF ok1
                        THEN /\ pods' = Append(pods, new)
                             /\ next_id' = next_id + 1
                             /\ d_creates' = <<Request(POD_CONFIG, FALSE)>>
                             /\ d_config' = POD_CONFIG
                             /\ d_pod' = Record(new.id, new.name, "PENDING", NoShape)
                             /\ d_pc' = "wait"
                             /\ d_out' = "-"
                        ELSE IF ok2
                        THEN /\ pods' = Append(pods, new)
                             /\ next_id' = next_id + 1
                             /\ d_creates' = <<Request(POD_CONFIG, TRUE), Request(config2, FALSE)>>
                             /\ d_config' = config2
                             /\ d_pod' = Record(new.id, new.name, "PENDING", NoShape)
                             /\ d_pc' = "wait"
                             /\ d_out' = "-"
                        ELSE /\ d_creates' = <<Request(POD_CONFIG, TRUE), Request(config2, TRUE)>>
                             /\ d_config' = config2
                             /\ d_pc' = "done"
                             /\ d_out' = "provider_error"
                             /\ UNCHANGED <<pods, next_id, d_pod>>

\* _deploy_blender.py 47-52: a poll that raises uses up an iteration
BlenderPollError ==
    /\ d_pc = "wait"
    /\ d_cmd = "blender"
    /\ w_iter < BlenderPolls
    /\ w_iter' = w_iter + 1
    /\ w_elapsed' = Slept(w_elapsed, PollSleep)
    /\ Waiting
    /\ UNCHANGED <<d_pc, d_pod, d_out, w_seen>>

\* _deploy_blender.py 47-63: a poll that answers
BlenderPoll ==
    /\ d_pc = "wait"
    /\ d_cmd = "blender"
    /\ w_iter < BlenderPolls
    /\ \E rec \in Snapshots(Polled) :
          /\ w_seen' = SeenAfter(w_seen, rec)
          /\ d_pod' = rec
          /\ IF BlenderAccepts(rec)
             THEN /\ d_pc' = "ready"
                  /\ w_iter' = 0
                  /\ w_elapsed' = 0
             ELSE /\ w_iter' = w_iter + 1
                  /\ w_elapsed' = Slept(w_elapsed, PollSleep)
                  /\ UNCHANGED d_pc
    /\ Waiting
    /\ UNCHANGED d_out

\* _deploy_blender.py 64-66: the for loop ran out
BlenderTimeout ==
    /\ d_pc = "wait"
    /\ d_cmd = "blender"
    /\ ~(w_iter < BlenderPolls)
    /\ d_out' = "timed_out"
    /\ d_pc' = "done"
    /\ UNCHANGED <<pods, next_id, n_cmds, d_cmd, d_template, d_no_setup, d_config,
                   d_creates, d_terms, d_failed, d_seen, d_existing, d_pod, d_ssh, d_ops,
                   w_elapsed, w_iter, w_seen, d_inputs, d_running>>

\* _deploy_blender.py 68-107: descriptor, upload, launch, report
BlenderProvision ==
    /\ d_pc = "ready"
    /\ d_cmd = "blender"
    /\ LET ssh == SshOf(d_pod)
           planned == <<Op("upload", "start_blender.sh", ssh, d_pod),
                        Op("launch", "start_blender.sh", ssh, d_pod)>>
       IN
       /\ d_ssh' = ssh
       /\ SetupRuns(planned)
    /\ d_pc' = "done"
    /\ UNCHANGED <<pods, next_id, n_cmds, d_cmd, d_template, d_no_setup, d_config,
                   d_creates, d_terms, d_seen, d_existing, d_pod, w_elapsed, w_iter,
                   w_seen, d_inputs, d_running>>

-----------------------------------------------------------------------------
(* The target resolver and the commands built on it: rpa.py 216-372, 524-535 *)

\* what the operator types at "Select target pod", stripped; the last one is
\* SUPERSCRIPT TWO (U+00B2), a key of its own on some keyboards
Choices == {"", "0", "1", "2", "3", "4", "5", "x", "-1", "^2"}

\* str.isdigit and int for the strings the operator types: isdigit is true
\* of U+00B2, and int raises ValueError on it
IsDigit(c) == c \in {"0", "1", "2", "3", "4", "5", "11", "12", "^2"}
IntRaises(c) == c = "^2"
IntOf(c) ==
    CASE c = "0" -> 0 [] c = "1" -> 1 [] c = "2" -> 2 [] c = "3" -> 3 [] c = "4" -> 4
      [] c = "5" -> 5 [] c = "11" -> 11 [] c = "12" -> 12

\* rpa.py 220: running
Running(listing) == SelectSeq(listing, LAMBDA p : p.desiredStatus = "RUNNING")

\* rpa.py 228-242: the pod of a non-empty list running
Selected(running, choice) ==
    IF Len(running) > 1
    THEN IF IsDigit(choice) /\ 1 <= IntOf(choice) /\ IntOf(choice) <= Len(running)
         THEN running[IntOf(choice)]
         ELSE running[1]
    ELSE running[1]

\* rpa.py 216-261: get_running_pod_info; d_pod' = NoPod stands for None,
\* raised tells whether it ended in an exception instead of returning
get_running_pod_info(raised) ==
    \/ \* 221-223: get_pods() raises
       /\ ~raised
       /\ d_running' = <<>>
       /\ d_inputs' = <<>>
       /\ d_pod' = NoPod
       /\ d_ssh' = NoSsh
    \/ \E st \in Statuses, choice \in Choices, shape \in Shapes :
          LET running == Running(PlainListing(st))
              asked == Len(running) > 1
          IN
          /\ d_running' = [i \in DOMAIN running |-> running[i].id]
          /\ d_inputs' = IF asked THEN <<choice>> ELSE <<>>
          /\ raised = (asked /\ IsDigit(choice) /\ IntRaises(choice))
          /\ IF running = <<>> \/ raised
             THEN /\ d_pod' = NoPod
                  /\ d_ssh' = NoSsh
             ELSE LET sel == Selected(running, choice)
                      pod == Record(sel.id, sel.name, sel.desiredStatus, shape)
                  IN
                  /\ d_pod' = pod
                  /\ d_ssh' = SshOf(pod)

\* a command that resolves its target and then runs `ops` on it
OnTarget(cmd, ops, out) ==
    /\ d_pc = "idle"
    /\ n_cmds < MaxCmds
    /\ n_cmds' = n_cmds + 1
    /\ d_cmd' = cmd
    /\ \E raised \in BOOLEAN :
          /\ get_running_pod_info(raised)
          /\ d_ops' = IF d_pod' = NoPod THEN <<>>
                      ELSE [i \in DOMAIN ops |-> Op(ops[i][1], ops[i][2], d_ssh', d_pod')]
          /\ d_out' = IF raised THEN "value_error"
                      ELSE IF d_pod' = NoPod THEN "no_pod" ELSE out
    /\ d_pc' = "done"
    /\ UNCHANGED <<pods, next_id, d_template, d_no_setup, d_config, d_creates, d_terms, d_failed,
                   d_seen, d_existing, w_elapsed, w_iter, w_seen>>

\* rpa.py 269-300: cmd_connect opens the tunnel
CmdConnect == OnTarget("connect", <<<<"tunnel", "8888">>>>, "done")

\* rpa.py 302-314: cmd_watch tails the startup log
CmdWatch == OnTarget("watch", <<<<"tail", "/workspace/startup.log">>>>, "done")

\* rpa.py 316-345: cmd_pull lists the remote output and copies it when there is any
CmdPull ==
    \E files \in BOOLEAN :
       OnTarget("pull",
                <<<<"command", "ls -A">>>> \o
                   (IF files THEN <<<<"download", "/workspace/ComfyUI/output/*">>>> ELSE <<>>),
                "done")

\* rpa.py 347-372: cmd_push makes the remote directory (check=True) and copies a file
CmdPush ==
    \E made \in BOOLEAN :
       OnTarget("push",
                <<<<"command", "mkdir -p">>>> \o
                   (IF made THEN <<<<"upload", "workflow.json">>>> ELSE <<>>),
                IF made THEN "done" ELSE "called_process_error")

\* rpa.py 524-535: cmd_shell
CmdShell == OnTarget("shell", <<<<"shell", "-">>>>, "done")

-----------------------------------------------------------------------------
(* Ingest: rpa.py 69-81 MODEL_FOLDERS, 537-555 guess_category,             *)
(* 557-639 cmd_ingest                                                      *)

\* rpa.py 69-81
MODEL_FOLDERS ==
    <<"checkpoints", "unet", "diffusion_models", "clip", "text_encoders", "vae",
      "loras", "clip_vision", "latent_upscale_models", "controlnet", "upscale_models">>

\* the None that guess_category returns
NoCategory == "None"

\* str.lower of one character and of a string (ASCII letters)
LowerChar(c) ==
    LET upper == "ABCDEFGHIJKLMNOPQRSTUVWXYZ"
        lower == "abcdefghijklmnopqrstuvwxyz"
        at == {i \in 1..26 : SubSeq(upper, i, i) = c}
    IN IF at = {} THEN c ELSE SubSeq(lower, CHOOSE i \in at : TRUE, CHOOSE i \in at : TRUE)

RECURSIVE Lower(_)
Lower(s) == IF s = "" THEN "" ELSE LowerChar(SubSeq(s, 1, 1)) \o Lower(SubSeq(s, 2, Len(s)))

\* the positions of the one-character string sep in s
Cuts(s, sep) == {i \in 1..Len(s) : SubSeq(s, i, i) = sep}

\* str.split(sep) for a separator of one character
RECURSIVE Split(_, _)
Split(s, sep) ==
    IF Cuts(s, sep) = {} THEN <<s>>
    ELSE LET i == CHOOSE i \in Cuts(s, sep) : \A j \in Cuts(s, sep) : i <= j IN
         <<SubSeq(s, 1, i - 1)>> \o Split(SubSeq(s, i + 1, Len(s)), sep)

\* `sub in s` for strings
Contains(s, sub) ==
    \E i \in 1..(Len(s) - Len(sub) + 1) : SubSeq(s, i, i + Len(sub) - 1) = sub

\* `x in parts` for a list
InList(x, parts) == \E i \in DOMAIN parts : parts[i] = x

\* rpa.py 542: sorted(MODEL_FOLDERS, key=len, reverse=True); the sort is
\* stable, so folders of equal length keep their order
SortedByLength(folders) ==
    LET before(i) == {j \in DOMAIN folders :
                         \/ Len(folders[j]) > Len(folders[i])
                         \/ Len(folders[j]) = Len(folders[i]) /\ j < i}
    IN [r \in DOMAIN folders |->
           folders[CHOOSE i \in DOMAIN folders : Cardinality(before(i)) = r - 1]]

\* rpa.py 546-548, 551-553: the folder the loop returns, the first of the
\* list that is among those passing the test; NoCategory when the loop ends
FirstIn(list, passing) ==
    LET at == {i \in DOMAIN list : list[i] \in passing} IN
    IF at = {} THEN NoCategory ELSE list[CHOOSE i \in at : \A j \in at : i <= j]

\* rpa.py 537-555
guess_category(url) ==
    LET url_lower == Lower(url)
        sorted_folders == SortedByLength(MODEL_FOLDERS)
        parts == Split(url_lower, "/")
        folders == {sorted_folders[i] : i \in DOMAIN sorted_folders}
        direct == FirstIn(sorted_folders, {folder \in folders : InList(folder, parts)})
    IN IF direct # NoCategory THEN direct
       ELSE FirstIn(sorted_folders, {folder \in folders : Contains(url_lower, folder)})

\* what the operator pastes at "URL(s)": links whose path names one or more
\* folders, as segments or inside longer names, with and without a query
\* string, a link that names none, and a token that is no http link
Pasted ==
    {"https://hf.co/org/repo/resolve/main/clip_vision/model.bin",
     "https://hf.co/models/CLIP/vae/x.bin",
     "https://hf.co/checkpoints/clip_vision/x.bin",
     "https://hf.co/my_text_encoders/vae/x.bin",
     "https://hf.co/a/clip_vision_g-vae.bin",
     "https://hf.co/org/repo/file.bin",
     "https://hf.co/clip/clip_vision?download=true",
     "https://hf.co/latent_upscale_models_x/clip?download=true",
     "ftp://hf.co/vae/x.bin"}

Batches == UNION {[1..n -> Pasted] : n \in 0..MaxUrls}

\* rpa.py 576: u.strip().startswith("http")
StartsWithHttp(u) == SubSeq(u, 1, 4) = "http"

\* rpa.py 590: if folder_name
IsAutoAlways(folder) == TRUE
IsAuto(folder) == folder # NoCategory

\* rpa.py 589: guess_category(url) for the links that can be pasted
Guessed == [u \in Pasted |-> guess_category(u)]

\* rpa.py 588-593: the two lists of the categorization
Tagged(urls) == [k \in DOMAIN urls |-> [url |-> urls[k], folder |-> Guessed[urls[k]]]]
ReadyToDownload(urls) == SelectSeq(Tagged(urls), LAMBDA e : IsAuto(e.folder))
NeedsReviewAll(urls) == urls
NeedsReview(urls) == SelectSeq(urls, LAMBDA u : ~IsAuto(Guessed[u]))

\* a remote download as issued: os.system of ssh with mkdir, cd and wget
Download(url, folder, by) == [url |-> url, folder |-> folder, by |-> by]

\* what the operator types at "Select Category"
Answers == {"", "0", "1", "3", "11", "12", "x", "^2"}

\* rpa.py 629: MODEL_FOLDERS[min(int(c_idx)-1, len(MODEL_FOLDERS)-1)]
ReviewFolderFromZero(k) ==
    MODEL_FOLDERS[(IF k < Len(MODEL_FOLDERS) - 1 THEN k ELSE Len(MODEL_FOLDERS) - 1) + 1]
ReviewFolder(k) ==
    MODEL_FOLDERS[(IF k - 1 < Len(MODEL_FOLDERS) - 1 THEN k - 1 ELSE Len(MODEL_FOLDERS) - 1) + 1]

\* what ingest leaves alone
Ingesting == UNCHANGED <<pods, next_id, d_template, d_no_setup, d_config, d_creates,
                         d_terms, d_failed, d_seen, d_existing, w_elapsed, w_iter, w_seen>>

\* rpa.py 557-593: the target, the pasted links, the categorization
IngestStart ==
    /\ d_pc = "idle"
    /\ n_cmds < MaxCmds
    /\ n_cmds' = n_cmds + 1
    /\ d_cmd' = "ingest"
    /\ d_ops' = <<>>
    /\ i_next' = 1
    /\ i_downloads' = <<>>
    /\ Ingesting
    /\ \E raised \in BOOLEAN :
          /\ get_running_pod_info(raised)
          /\ IF raised \/ d_pod' = NoPod
             THEN /\ d_out' = IF raised THEN "value_error" ELSE "no_pod"
                  /\ d_pc' = "done"
                  /\ i_tokens' = <<>>
                  /\ i_urls' = <<>>
                  /\ i_ready' = <<>>
                  /\ i_review' = <<>>
             ELSE \E tokens \in Batches :
                     LET urls == SelectSeq(tokens, StartsWithHttp) IN
                     /\ i_tokens' = tokens
                     /\ i_urls' = urls
                     /\ i_ready' = ReadyToDownload(urls)
                     /\ i_review' = NeedsReview(urls)
                     /\ d_out' = IF tokens = <<>> THEN "no_input"
                                 ELSE IF urls = <<>> THEN "no_urls" ELSE "-"
                     /\ d_pc' = IF urls = <<>> THEN "done" ELSE "auto"

\* what the phases after the categorization leave alone
Ingested == UNCHANGED <<n_cmds, d_cmd, d_pod, d_ssh, d_running, i_tokens, i_urls,
                        i_ready, i_review>>

\* rpa.py 595-610: the automatic downloads, whose exit status is not looked at
IngestAuto ==
    /\ d_pc = "auto"
    /\ i_downloads' = [k \in DOMAIN i_ready |->
                          Download(i_ready[k].url, i_ready[k].folder, "auto")]
    /\ d_ops' = [k \in DOMAIN i_ready |-> Op("ingest", i_ready[k].folder, d_ssh, d_pod)]
    /\ d_pc' = "review"
    /\ Ingesting
    /\ Ingested
    /\ UNCHANGED <<d_inputs, d_out, i_next>>

\* rpa.py 612-637: one link of needs_review
IngestReview ==
    /\ d_pc = "review"
    /\ i_next <= Len(i_review)
    /\ i_next' = i_next + 1
    /\ \E c_idx \in Answers :
          /\ d_inputs' = Append(d_inputs, c_idx)
          /\ IF ~IsDigit(c_idx)
             THEN UNCHANGED <<d_pc, d_out, d_ops, i_downloads>>
             ELSE IF IntRaises(c_idx)
             THEN /\ d_pc' = "done"
                  /\ d_out' = "value_error"
                  /\ UNCHANGED <<d_ops, i_downloads>>
             ELSE IF IntOf(c_idx) = 0
             THEN UNCHANGED <<d_pc, d_out, d_ops, i_downloads>>
             ELSE LET folder_name == ReviewFolder(IntOf(c_idx)) IN
                  /\ i_downloads' = Append(i_downloads,
                                           Download(i_review[i_next], folder_name, "user"))
                  /\ d_ops' = Append(d_ops, Op("ingest", folder_name, d_ssh, d_pod))
                  /\ UNCHANGED <<d_pc, d_out>>
    /\ Ingesting
    /\ Ingested

\* rpa.py 639: all ingest tasks finished
IngestFinish ==
    /\ d_pc = "review"
    /\ i_next > Len(i_review)
    /\ d_pc' = "done"
    /\ d_out' = "finished"
    /\ Ingesting
    /\ Ingested
    /\ UNCHANGED <<d_inputs, d_ops, i_next, i_downloads>>

\* the reports that stand for an exception that left the command: the
\* provider's error of get_pods or of the second create_pod (rpa.py 139, 154,
\* _deploy_blender.py 28, 42), CalledProcessError of the setup (rpa.py 202,
\* 208), ValueError of int() (rpa.py 236, 625); the other reports are printed
\* before a return
Uncaught == {"provider_error", "called_process_error", "value_error"}

\* rpa.py 857-899: main calls the command outside any try and never calls
\* sys.exit with a status: the interpreter ends with status 1 when an
\* exception left the command and with status 0 when it returned
ExitStatus(out) == IF out \in Uncaught THEN 1 ELSE 0

\* rpa.py 857-899: the command returned and the process ends; nothing of it
\* is kept but the provider's instances
CmdExit ==
    /\ d_pc = "done"
    /\ d_pc' = "idle"
    /\ d_cmd' = "-"
    /\ d_template' = "-"
    /\ d_no_setup' = FALSE
    /\ d_config' = NoConfig
    /\ d_creates' = <<>>
    /\ d_terms' = 0
    /\ d_failed' = "-"
    /\ d_seen' = {}
    /\ d_existing' = <<>>
    /\ d_pod' = NoPod
    /\ d_ssh' = NoSsh
    /\ d_ops' = <<>>
    /\ d_out' = "-"
    /\ w_elapsed' = 0
    /\ w_iter' = 0
    /\ w_seen' = "none"
    /\ d_inputs' = <<>>
    /\ d_running' = <<>>
    /\ i_tokens' = <<>>
    /\ i_urls' = <<>>
    /\ i_ready' = <<>>
    /\ i_review' = <<>>
    /\ i_next' = 1
    /\ i_downloads' = <<>>
    /\ t_pid' = NoPid
    /\ t_confirm' = "-"
    /\ t_req' = NoPid
    /\ UNCHANGED <<pods, next_id, n_cmds>>

-----------------------------------------------------------------------------
(* The download command of ingest and the shells that read it              *)
(* (rpa.py 603-610 and 633-637; os.system hands the string to the local    *)
(* sh -c, ssh hands its argument to the login shell of the instance).      *)
(* A command is a sequence of pieces: each piece is a character, or a      *)
(* stretch of text of the script that holds no quoting character, and      *)
(* carries whether it was copied from the URL.                             *)

\* the longest URL tail the model pastes
MaxUrlLen == 3

\* the characters of a URL, by name: "a" stands for every character that no
\* shell treats specially
Alphabet == {"a", "quote", "dquote", "dollar", "backtick"}

\* rpa.py 561: a token is a URL when it starts with "http" ("h" stands for
\* that prefix); what follows is free
Urls == {<<"h">> \o t : t \in UNION {[1..n -> Alphabet] : n \in 0..MaxUrlLen}}

FromUrl(c) == [c |-> c, of |-> "url"]
FromCode(c) == [c |-> c, of |-> "code"]

\* rpa.py 606, 633: url.replace: every single quote becomes the four
\* characters quote, backslash, quote, quote
RECURSIVE safe_url(_)
safe_url(url) ==
    IF url = <<>> THEN <<>>
    ELSE (IF Head(url) = "quote"
          THEN <<FromCode("quote"), FromCode("backslash"), FromUrl("quote"), FromCode("quote")>>
          ELSE <<FromUrl(Head(url))>>) \o safe_url(Tail(url))

\* rpa.py 607, 634: the f-string remote_cmd
remote_cmd(url) ==
    <<FromCode("mkdir -p dest_path && cd dest_path && wget -c --content-disposition "),
      FromCode("quote")>> \o safe_url(url) \o <<FromCode("quote")>>

\* rpa.py 608-609, 635-636: the f-string ssh_cmd (ssh_base, rpa.py
\* 263-267, is one piece: its own quotes are balanced)
ssh_cmd(url) ==
    <<FromCode("ssh_base "), FromCode("dquote")>> \o remote_cmd(url) \o <<FromCode("dquote")>>

\* the characters that make a dollar start an expansion: a name, a second
\* dollar
Expands(c) == c \in {"a", "h", "dollar"}

\* what a backslash escapes between double quotes
EscapedInDouble(c) == c \in {"dollar", "backtick", "dquote", "backslash"}

\* sh reads a command (POSIX Shell Command Language 2.2 Quoting, 2.6 Word
\* Expansions): mode is "plain", "single" or "double"; out collects the
\* pieces that reach the command as text, syntax becomes TRUE when a piece
\* copied from the URL is read as quoting, expansion or substitution
RECURSIVE Sh(_, _, _, _)
Sh(cmd, mode, out, syntax) ==
    IF cmd = <<>> THEN [out |-> out, syntax |-> syntax]
    ELSE LET t == Head(cmd)
             rest == Tail(cmd)
             u == t.of = "url"
             lit == Sh(rest, mode, Append(out, t), syntax)
         IN CASE mode = "single" ->
                     IF t.c = "quote" THEN Sh(rest, "plain", out, syntax \/ u) ELSE lit
              [] t.c = "dquote" ->
                     Sh(rest, IF mode = "double" THEN "plain" ELSE "double", out, syntax \/ u)
              [] t.c = "quote" ->
                     IF mode = "double" THEN lit ELSE Sh(rest, "single", out, syntax \/ u)
              [] t.c = "backslash" ->
                     IF rest # <<>> /\ (mode = "plain" \/ EscapedInDouble(Head(rest).c))
                     THEN Sh(Tail(rest), mode, Append(out, Head(rest)), syntax \/ u)
                     ELSE lit
              [] t.c = "backtick" -> Sh(rest, mode, out, syntax \/ u)
              [] t.c = "dollar" ->
                     IF rest # <<>> /\ Expands(Head(rest).c)
                     THEN Sh(Tail(rest), mode, out, syntax \/ u)
                     ELSE lit
              [] OTHER -> lit

-----------------------------------------------------------------------------
(* terminate (rpa.py cmd_terminate) *)

\* what the operator types at "Are you sure you want to terminate" (y/N)
Confirms == {"y", "Y", "n", "N", "", "yes"}

\* rpa.py 810-811: confirm = input(...).lower(); if confirm == 'y'
ConfirmedAlways(confirm) == TRUE
Confirmed(confirm) == Lower(confirm) = "y"

\* the ids args.pod_id can hold and an operator can paste: none, the id of a
\* live instance, an id the provider does not know
PodIds == {NoPid} \cup {pods[i].id : i \in DOMAIN pods} \cup {next_id}

\* rpa.py 773-807: the id to be confirmed, or the report printed before the
\* return; `paste` is a pasted id (NoPid: the operator typed `choice`)
TerminateTarget(arg, lists, running, choice, paste) ==
    IF arg # NoPid THEN [pid |-> arg, out |-> "-"]
    ELSE IF ~lists THEN [pid |-> NoPid, out |-> "listing_error"]
    ELSE IF running = <<>> THEN [pid |-> NoPid, out |-> "no_pod"]
    ELSE IF paste # NoPid THEN [pid |-> paste, out |-> "-"]
    ELSE IF choice = "" THEN [pid |-> NoPid, out |-> "cancelled"]
    ELSE IF IsDigit(choice) /\ IntRaises(choice)
    THEN [pid |-> NoPid, out |-> "listing_error"]
    ELSE IF IsDigit(choice) /\ 1 <= IntOf(choice) /\ IntOf(choice) <= Len(running)
    THEN [pid |-> running[IntOf(choice)].id, out |-> "-"]
    ELSE [pid |-> next_id, out |-> "-"]

\* rpa.py 772-816: cmd_terminate; terminate_pod removes the instance when
\* the provider accepts the request (ok)
CmdTerminate ==
    /\ d_pc = "idle"
    /\ n_cmds < MaxCmds
    /\ n_cmds' = n_cmds + 1
    /\ d_cmd' = "terminate"
    /\ d_pc' = "done"
    /\ \E arg \in PodIds, lists \in BOOLEAN :
       \E st \in (IF arg = NoPid /\ lists THEN Statuses ELSE {[i \in DOMAIN pods |-> "-"]}) :
       \E choice \in (IF Running(PlainListing(st)) # <<>> THEN Choices ELSE {""}),
          paste \in (IF Running(PlainListing(st)) # <<>> THEN PodIds ELSE {NoPid}),
          confirm \in Confirms, ok \in BOOLEAN :
          LET running == Running(PlainListing(st))
              target == TerminateTarget(arg, lists, running, choice, paste)
              chose == running # <<>>
              typed == IF paste # NoPid THEN "id" ELSE choice
          IN
          /\ d_running' = [i \in DOMAIN running |-> running[i].id]
          /\ t_pid' = target.pid
          /\ IF target.pid = NoPid
             THEN /\ d_inputs' = IF chose THEN <<typed>> ELSE <<>>
                  /\ t_confirm' = "-"
                  /\ t_req' = NoPid
                  /\ d_out' = target.out
                  /\ UNCHANGED <<pods, d_terms>>
             ELSE /\ d_inputs' = (IF chose THEN <<typed>> ELSE <<>>) \o <<confirm>>
                  /\ t_confirm' = confirm
                  /\ IF Confirmed(confirm)
                     THEN /\ t_req' = target.pid
                          /\ d_terms' = d_terms + 1
                          /\ pods' = IF ok
                                     THEN SelectSeq(pods, LAMBDA p : p.id # target.pid)
                                     ELSE pods
                          /\ d_out' = IF ok THEN "terminated" ELSE "provider_error"
                     ELSE /\ t_req' = NoPid
                          /\ d_out' = "cancelled"
                          /\ UNCHANGED <<pods, d_terms>>
    /\ UNCHANGED <<next_id, d_template, d_no_setup, d_config, d_creates, d_failed, d_seen,
                   d_existing, d_pod, d_ssh, d_ops, w_elapsed, w_iter, w_seen>>

-----------------------------------------------------------------------------

\* the characters of a sequence of pieces
Text(pieces) == [k \in 1..Len(pieces) |-> pieces[k].c]

\* no download command is being built
NoQuoting ==
    /\ q_pc = "-"
    /\ q_url = <<>>
    /\ q_cmd = <<>>
    /\ q_arg = <<>>
    /\ q_word = <<>>
    /\ q_syntax = {}

\* ingest is about to download a URL of the batch
QuoteInit ==
    /\ pods = <<[id |-> 1, name |-> NameOf(1)]>>
    /\ next_id = 2
    /\ n_cmds = 0
    /\ NoCommand
    /\ q_pc = "url"
    /\ q_url \in Urls
    /\ q_cmd = <<>>
    /\ q_arg = <<>>
    /\ q_word = <<>>
    /\ q_syntax = {}

\* rpa.py 606-609, 633-636: the command string is built
BuildDownload ==
    /\ q_pc = "url"
    /\ q_pc' = "built"
    /\ q_cmd' = ssh_cmd(q_url)
    /\ UNCHANGED <<q_url, q_arg, q_word, q_syntax>>

\* rpa.py 610, 637: os.system(ssh_cmd): the local shell reads the string and
\* runs ssh with what stood between the double quotes as its one argument
LocalShell ==
    /\ q_pc = "built"
    /\ LET read == Sh(q_cmd, "plain", <<>>, FALSE)
       IN /\ q_arg' = Tail(read.out)
          /\ q_syntax' = IF read.syntax THEN {"local"} ELSE {}
          /\ q_pc' = IF read.syntax THEN "escaped" ELSE "local"
    /\ UNCHANGED <<q_url, q_cmd, q_word>>

\* the shell of the instance reads the argument of ssh and runs wget with
\* what stood between the single quotes as its last argument
RemoteShell ==
    /\ q_pc = "local"
    /\ LET read == Sh(q_arg, "plain", <<>>, FALSE)
       IN /\ q_word' = Text(Tail(read.out))
          /\ q_syntax' = IF read.syntax THEN q_syntax \cup {"remote"} ELSE q_syntax
          /\ q_pc' = IF read.syntax THEN "escaped" ELSE "remote"
    /\ UNCHANGED <<q_url, q_cmd, q_arg>>

-----------------------------------------------------------------------------
(* Specifications *)

Init == RetryInit /\ DeployInit /\ NoQuoting

Next ==
    \/ CmdDeploy /\ UNCHANGED <<rvars, ivars, qvars, tvars>>
    \/ WaitPollError /\ UNCHANGED <<rvars, ivars, qvars, tvars>>
    \/ WaitPoll /\ UNCHANGED <<rvars, ivars, qvars, tvars>>
    \/ WaitTimeout /\ UNCHANGED <<rvars, ivars, qvars, tvars>>
    \/ DeployProvision /\ UNCHANGED <<rvars, ivars, qvars, tvars>>
    \/ CmdBlender /\ UNCHANGED <<rvars, ivars, qvars, tvars>>
    \/ BlenderPollError /\ UNCHANGED <<rvars, ivars, qvars, tvars>>
    \/ BlenderPoll /\ UNCHANGED <<rvars, ivars, qvars, tvars>>
    \/ BlenderTimeout /\ UNCHANGED <<rvars, ivars, qvars, tvars>>
    \/ BlenderProvision /\ UNCHANGED <<rvars, ivars, qvars, tvars>>
    \/ CmdConnect /\ UNCHANGED <<rvars, ivars, qvars, tvars>>
    \/ CmdWatch /\ UNCHANGED <<rvars, ivars, qvars, tvars>>
    \/ CmdPull /\ UNCHANGED <<rvars, ivars, qvars, tvars>>
    \/ CmdPush /\ UNCHANGED <<rvars, ivars, qvars, tvars>>
    \/ CmdShell /\ UNCHANGED <<rvars, ivars, qvars, tvars>>
    \/ CmdExit /\ UNCHANGED <<rvars, qvars>>

\* the command line against the provider
Spec == Init /\ [][Next]_vars

\* the retry decorator and the functions it wraps
RetrySteps ==
    \/ RetryCall /\ UNCHANGED <<dvars, ivars, qvars, tvars>>
    \/ RetryAttemptOk /\ UNCHANGED <<dvars, ivars, qvars, tvars>>
    \/ RetryAttemptFail /\ UNCHANGED <<dvars, ivars, qvars, tvars>>
    \/ RetryAttemptInterrupted /\ UNCHANGED <<dvars, ivars, qvars, tvars>>
    \/ RetryRaise /\ UNCHANGED <<dvars, ivars, qvars, tvars>>

SpecRetry == Init /\ [][RetrySteps]_vars

\* the commands that resolve their target, on an account that holds instances
TargetSteps ==
    \/ CmdConnect /\ UNCHANGED <<rvars, ivars, qvars, tvars>>
    \/ CmdWatch /\ UNCHANGED <<rvars, ivars, qvars, tvars>>
    \/ CmdPull /\ UNCHANGED <<rvars, ivars, qvars, tvars>>
    \/ CmdPush /\ UNCHANGED <<rvars, ivars, qvars, tvars>>
    \/ CmdShell /\ UNCHANGED <<rvars, ivars, qvars, tvars>>
    \/ CmdExit /\ UNCHANGED <<rvars, qvars>>

InitTargets == RetryInit /\ TargetsInit /\ NoQuoting

SpecTargets == InitTargets /\ [][TargetSteps]_vars

\* an account that holds one instance, no command run yet
IngestInit ==
    /\ pods = <<[id |-> 1, name |-> NameOf(1)]>>
    /\ next_id = 2
    /\ n_cmds = 0
    /\ NoCommand

\* the ingest command
IngestSteps ==
    \/ IngestStart /\ UNCHANGED <<rvars, qvars, tvars>>
    \/ IngestAuto /\ UNCHANGED <<rvars, qvars, tvars>>
    \/ IngestReview /\ UNCHANGED <<rvars, qvars, tvars>>
    \/ IngestFinish /\ UNCHANGED <<rvars, qvars, tvars>>
    \/ CmdExit /\ UNCHANGED <<rvars, qvars>>

InitIngest == RetryInit /\ IngestInit /\ NoQuoting

SpecIngest == InitIngest /\ [][IngestSteps]_vars

\* the provisioning wait of one deploy, from the command to the end of the wait
WaitSteps ==
    \/ CmdDeploy /\ UNCHANGED <<rvars, ivars, qvars, tvars>>
    \/ WaitPollError /\ UNCHANGED <<rvars, ivars, qvars, tvars>>
    \/ WaitPoll /\ UNCHANGED <<rvars, ivars, qvars, tvars>>
    \/ WaitTimeout /\ UNCHANGED <<rvars, ivars, qvars, tvars>>
    \/ CmdBlender /\ UNCHANGED <<rvars, ivars, qvars, tvars>>
    \/ BlenderPollError /\ UNCHANGED <<rvars, ivars, qvars, tvars>>
    \/ BlenderPoll /\ UNCHANGED <<rvars, ivars, qvars, tvars>>
    \/ BlenderTimeout /\ UNCHANGED <<rvars, ivars, qvars, tvars>>

\* the loop goes round: a poll that does not end the wait
WaitGoesOn ==
    /\ WaitPollError \/ WaitPoll \/ BlenderPollError \/ BlenderPoll
    /\ d_pc' = "wait"
    /\ UNCHANGED <<rvars, ivars, qvars, tvars>>

\* the loop is left because its condition is false
WaitRunsOut ==
    /\ WaitTimeout \/ BlenderTimeout
    /\ UNCHANGED <<rvars, ivars, qvars, tvars>>

InitWait == RetryInit /\ DeployInit /\ NoQuoting

\* the wait is a sequential loop: as long as it has not ended it goes round
\* again, and it is left when its condition is false; nothing is assumed of
\* what the provider answers
SpecWait ==
    InitWait /\ [][WaitSteps]_vars /\ WF_vars(WaitGoesOn) /\ WF_vars(WaitRunsOut)

\* terminate on an account that holds instances of earlier deploys
TerminateSteps ==
    \/ CmdTerminate /\ UNCHANGED <<rvars, ivars, qvars>>
    \/ CmdExit /\ UNCHANGED <<rvars, qvars>>

InitTerminate == RetryInit /\ TargetsInit /\ NoQuoting

SpecTerminate == InitTerminate /\ [][TerminateSteps]_vars

\* the download command of ingest, from the URL to the argument of wget
QuoteSteps ==
    \/ BuildDownload /\ UNCHANGED <<rvars, dvars, ivars, tvars>>
    \/ LocalShell /\ UNCHANGED <<rvars, dvars, ivars, tvars>>
    \/ RemoteShell /\ UNCHANGED <<rvars, dvars, ivars, tvars>>

InitQuote == RetryInit /\ QuoteInit

SpecQuote == InitQuote /\ [][QuoteSteps]_vars

-----------------------------------------------------------------------------
(* Claims about the retry decorator, checked under SpecRetry *)

\* initialDelay * backoffMultiplier^(i-1)
BackoffDelay(i) == RatMul(r_delay, RatPow(r_backoff, i - 1))

Failed(o) == o.kind \in {"exc", "base"}

\* C1: when the wrapped operation fails on its first k-1 invocations and
\* succeeds on invocation k, the wrapper returns the value of invocation k,
\* nothing is invoked after it, and the sleeps performed are exactly
\* delay * backoff^(i-1) for i = 1..k-1.
C1_ReturnsAfterBackoff ==
    LET k == Len(r_calls) IN
    (k > 0 /\ r_calls[k].kind = "ok") =>
        /\ r_pc = "returned"
        /\ r_result = r_calls[k]
        /\ \A i \in 1..(k - 1) : r_calls[i].kind = "exc"
        /\ Len(r_sleeps) = k - 1
        /\ \A i \in 1..(k - 1) : RatEq(r_sleeps[i], BackoffDelay(i))

\* a call that succeeded on its third invocation, after two sleeps, with
\* backoff 1.5
C1_Witness ==
    /\ r_pc = "returned"
    /\ Len(r_calls) = 3
    /\ Len(r_sleeps) = 2
    /\ r_backoff = Rat(3, 2)
    /\ r_delay = Rat(2, 1)

\* C2: when every one of the max_attempts invocations fails, the wrapper
\* does not return, and what it raises is the failure of the last invocation.
C2_RaisesLastFailure ==
    (/\ r_pc # "idle"
     /\ Len(r_calls) = r_max
     /\ \A i \in 1..r_max : Failed(r_calls[i])) =>
        /\ r_pc \in {"loop", "raised"}
        /\ r_pc = "raised" => r_result = r_calls[r_max]

\* three failures, the last one different from the first, then the raise
C2_Witness ==
    /\ r_pc = "raised"
    /\ r_max = 3
    /\ Len(r_calls) = 3
    /\ \A i \in 1..3 : r_calls[i].kind = "exc"
    /\ r_calls[1] # r_calls[3]
    /\ r_result = r_calls[3]

\* C11: an upload_file or download_files whose every invocation of scp fails
\* invokes scp exactly twice, sleeps once, for 1 second, after the first
\* invocation and not after the second, and then raises the error of the
\* second invocation.
C11_TransferTwoAttempts ==
    (/\ r_op \in {"upload_file", "download_files"}
     /\ \A i \in DOMAIN r_calls : r_calls[i].kind = "exc") =>
        /\ Len(r_runs) = Len(r_calls)
        /\ Len(r_runs) <= 2
        /\ Len(r_sleeps) = (IF Len(r_runs) = 0 THEN 0 ELSE 1)
        /\ \A i \in DOMAIN r_sleeps : RatEq(r_sleeps[i], Rat(1, 1))
        /\ r_pc \in {"loop", "raised"}
        /\ r_pc = "raised" =>
              /\ Len(r_runs) = 2
              /\ r_result = SubprocessRun(r_runs[2], TRUE)
              /\ r_result.etype = "CalledProcessError"

\* a download whose scp exited 1 and then 255 raised the second error
C11_Witness ==
    /\ r_op = "download_files"
    /\ r_pc = "raised"
    /\ Len(r_runs) = 2
    /\ r_runs[1].code = 1
    /\ r_runs[2].code = 255
    /\ r_result.msg = "exit 255"

\* ssh could not reach the instance: it exited 255 by itself, or hung until
\* the timeout without the remote side starting anything
CannotConnect(run) ==
    \/ run.kind = "exit" /\ run.code = 255
    \/ run.kind = "timeout" /\ ~run.started

\* C12 (as claimed): when ssh cannot connect on any attempt of a run_command,
\* run_command does not return a result; it raises after ssh was invoked 3
\* times.
C12_ConnectFailureRaises ==
    (/\ r_op = "run_command"
     /\ r_runs # <<>>
     /\ \A i \in DOMAIN r_runs : CannotConnect(r_runs[i])) =>
        /\ r_pc # "returned"
        /\ r_pc = "raised" => (Len(r_runs) = 3 /\ r_result.kind = "exc")

\* C13 (as claimed): a run_command without capture whose remote command ran
\* and exited non-zero does not return a result.
C13_NonZeroExitRaises ==
    (/\ r_op = "run_command"
     /\ ~r_capture
     /\ r_runs # <<>>
     /\ r_runs[Len(r_runs)].kind = "exit"
     /\ r_runs[Len(r_runs)].started
     /\ r_runs[Len(r_runs)].code # 0) =>
        r_pc # "returned"

\* C14 (as claimed): a check_file_exists or check_process_running invokes ssh
\* at most once.
C14_QueriesNotRetried ==
    r_caller \in {"check_file_exists", "check_process_running"} => Len(r_runs) <= 1

-----------------------------------------------------------------------------
(* Claims about deploy and the provisioning wait, checked under Spec *)

Deploying == d_cmd \in {"deploy", "blender"}

\* C3: a deploy of a COMMUNITY template whose first create_pod raises issues
\* exactly one more create request, equal to the first but for cloud_type
\* SECURE, and no deploy issues a third create request.
C3_OneSecureFallback ==
    /\ Len(d_creates) <= 2
    /\ (/\ d_cmd = "deploy"
        /\ d_creates # <<>>
        /\ d_creates[1].config.cloud_type = "COMMUNITY"
        /\ d_creates[1].raised) =>
           /\ Len(d_creates) = 2
           /\ d_creates[1].config = get_pod_config(d_template)
           /\ d_creates[2].config = [d_creates[1].config EXCEPT !.cloud_type = "SECURE"]

\* the value template fell back to SECURE and the deploy went on to wait
C3_Witness ==
    /\ d_cmd = "deploy"
    /\ d_template = "value"
    /\ Len(d_creates) = 2
    /\ d_creates[1].raised
    /\ ~d_creates[2].raised
    /\ d_pc = "wait"

\* C4: when the listing shows a RUNNING instance under the template's name,
\* the deploy issues no create request and goes on with the id of the first
\* such instance.
C4_ReusesRunningInstance ==
    (Deploying /\ d_seen # {}) =>
        /\ d_creates = <<>>
        /\ d_pod.id \in d_seen
        /\ \A id \in d_seen : d_pod.id <= id

\* a deploy that reused an instance and completed its setup on it
C4_Witness ==
    /\ d_cmd = "deploy"
    /\ d_seen # {}
    /\ d_out = "complete"
    /\ d_ops # <<>>
    /\ Len(pods) = 1

\* C5 (as claimed): the provider never holds two live instances with the
\* same logical name.
C5_NoDuplicateName ==
    \A i, j \in DOMAIN pods : i # j => pods[i].name # pods[j].name

\* C6: while every successful poll has shown RUNNING without a reachable
\* port 22, the deploy reports no success and attempts no setup; when its
\* wait is over, the budget has elapsed and the deploy reported the timeout.
C6_UnreachableTimesOut ==
    (Deploying /\ w_seen = "unreach") =>
        /\ d_out \in {"-", "timed_out"}
        /\ d_ops = <<>>
        /\ d_pc \in {"wait", "done"}
        /\ d_pc = "done" => (d_out = "timed_out" /\ w_elapsed >= Timeout)

\* a deploy of rpa.py timed out after polls that all showed RUNNING, unreachable
C6_Witness ==
    /\ d_cmd = "deploy"
    /\ w_seen = "unreach"
    /\ d_pc = "done"
    /\ d_out = "timed_out"

\* C7: the record the wait returns is RUNNING and has a port mapping with
\* private port 22 that is publicly reachable.
C7_WaitReturnsUsable ==
    (Deploying /\ (d_pc = "ready" \/ d_out \in {"complete", "called_process_error"})) =>
        Usable(d_pod)

\* the wait of rpa.py returned a record with two port mappings
C7_Witness ==
    /\ d_cmd = "deploy"
    /\ d_pc = "ready"
    /\ Len(d_pod.ports) = 2
    /\ d_pod.ports[1].privatePort = 8888

\* C8 (as claimed): every remote operation attempted uses an address derived
\* from a usable record.
C8_OpsOnlyOnUsable ==
    \A i \in DOMAIN d_ops : d_ops[i].usable

\* the wait of the running deploy has run out of budget
BudgetSpent ==
    /\ d_pc = "wait"
    /\ \/ d_cmd = "deploy" /\ w_elapsed >= Timeout
       \/ d_cmd = "blender" /\ w_iter >= BlenderPolls

\* C9: the step a deploy takes when its wait has run out of budget issues no
\* terminate request, leaves the provider's instances as they are, attempts
\* no remote operation and reports the timeout.
C9_TimeoutLeavesInstances ==
    [][BudgetSpent =>
          /\ pods' = pods
          /\ d_terms = 0
          /\ d_terms' = 0
          /\ d_ops' = <<>>
          /\ d_out' = "timed_out"
          /\ d_pc' = "done"]_vars

\* a deploy that created its instance timed out, and the instance is still there
C9_Witness ==
    /\ d_cmd = "deploy"
    /\ d_out = "timed_out"
    /\ Len(d_creates) = 1
    /\ w_seen = "other"
    /\ \E i \in DOMAIN pods : pods[i].id = d_pod.id

\* C10 (as claimed): a deploy whose create request failed on the SECURE
\* tier, or whose fallback request failed too, issues no further create
\* request, does not poll, attempts no setup and ends with the provider's error.
C10_FailedCreateEndsDeploy ==
    (/\ Deploying
     /\ d_creates # <<>>
     /\ d_creates[1].raised
     /\ \/ d_creates[1].config.cloud_type = "SECURE"
        \/ (Len(d_creates) >= 2 /\ d_creates[2].raised)) =>
        /\ Len(d_creates) = (IF d_creates[1].config.cloud_type = "SECURE" THEN 1 ELSE 2)
        /\ d_pc = "done"
        /\ d_out \in {"create_failed", "provider_error"}
        /\ w_seen = "none"
        /\ w_elapsed = 0
        /\ d_ops = <<>>

-----------------------------------------------------------------------------
(* Claims about the target resolver, checked under SpecTargets *)

\* a command that resolves its target has run
Resolved == d_pc = "done" /\ d_cmd \in {"connect", "watch", "pull", "push", "shell"}

\* the operator's input names the k-th of n candidates
Names(input, k, n) ==
    /\ 1 <= k
    /\ k <= n
    /\ input = <<"1", "2", "3", "4", "5">>[k]

\* C15 (as claimed): with no running candidate the resolver returns None;
\* with exactly one it returns that candidate without prompting; with two or
\* more and an input that names none of them it returns the first candidate.
C15_ResolverDefaults ==
    Resolved =>
        /\ d_running = <<>> => d_pod = NoPod
        /\ Len(d_running) = 1 => (d_pod.id = d_running[1] /\ d_inputs = <<>>)
        /\ (/\ Len(d_running) >= 2
            /\ \A k \in 1..Len(d_running) : ~Names(d_inputs[1], k, Len(d_running))) =>
               d_pod.id = d_running[1]

\* C16 (as claimed): with N >= 2 candidates, an input that is a number k in
\* 1..N selects the k-th candidate of the list, and every other input
\* selects the first.
C16_SelectsKthOrFirst ==
    (Resolved /\ Len(d_running) >= 2) =>
        LET n == Len(d_running)
            ks == {k \in 1..n : Names(d_inputs[1], k, n)}
        IN
        /\ Len(d_inputs) = 1
        /\ \A k \in ks : d_pod.id = d_running[k]
        /\ ks = {} => d_pod.id = d_running[1]

\* C17 (as claimed): the resolver returns a descriptor only for a candidate
\* that has a port-22 mapping flagged publicly reachable.
C17_NoPlaceholderDescriptor ==
    (Resolved /\ d_ssh # NoSsh) =>
        \E i \in DOMAIN d_pod.ports :
           d_pod.ports[i].privatePort = 22 /\ d_pod.ports[i].isIpPublic

-----------------------------------------------------------------------------
(* Claims about the classifier of ingest, checked under SpecIngest *)

\* the first position of one of the characters of seps in s, Len(s) + 1 when
\* none occurs
FirstOf(s, seps) ==
    LET at == {i \in 1..Len(s) : \E c \in seps : SubSeq(s, i, i) = c} IN
    IF at = {} THEN Len(s) + 1 ELSE CHOOSE i \in at : \A j \in at : i <= j

\* the path of a URL scheme://authority/path?query#fragment
PathOf(url) ==
    LET colon == FirstOf(url, {":"})
        rest == SubSeq(url, colon + 3, Len(url))
        from == SubSeq(rest, FirstOf(rest, {"/"}), Len(rest))
    IN SubSeq(from, 1, FirstOf(from, {"?", "#"}) - 1)

Folders == {MODEL_FOLDERS[i] : i \in DOMAIN MODEL_FOLDERS}

\* the configured categories that are a full segment of the lowercased path
\* of a link, and those that occur anywhere in the lowercased link
SegmentCategories ==
    [u \in Pasted |-> {f \in Folders : InList(f, Split(Lower(PathOf(u)), "/"))}]
SubstringCategories ==
    [u \in Pasted |-> {f \in Folders : Contains(Lower(u), f)}]

Longest(S) == {f \in S : \A g \in S : Len(g) <= Len(f)}

\* C18 (as claimed): a link whose path has several configured categories as
\* full segments is classified to one of the longest of them, and a link with
\* the path segment clip_vision is never classified to clip.
C18_LongestSegmentWins ==
    /\ \A k \in DOMAIN i_ready :
          LET segs == SegmentCategories[i_ready[k].url] IN
          /\ Cardinality(segs) >= 2 => i_ready[k].folder \in Longest(segs)
          /\ "clip_vision" \in segs => i_ready[k].folder # "clip"
    /\ \A k \in DOMAIN i_review : Cardinality(SegmentCategories[i_review[k]]) < 2

\* C19 (as claimed): a link whose path has a configured category as a full
\* segment is classified to such a category, whatever longer category occurs
\* in it as a substring only; a link without one is classified to the longest
\* category that occurs in it.
C19_SegmentBeforeSubstring ==
    \A k \in DOMAIN i_ready :
       LET segs == SegmentCategories[i_ready[k].url]
           subs == SubstringCategories[i_ready[k].url]
       IN
       /\ segs # {} => i_ready[k].folder \in segs
       /\ segs = {} => i_ready[k].folder \in Longest(subs)

\* C20: a link in which no configured category is a path segment or a
\* substring is in the manual list, has no category and is not downloaded
\* automatically; every entry of the auto list carries a configured category
\* that is a path segment or a substring of its link, and only such entries
\* are downloaded automatically.
C20_UnmatchedGoesManual ==
    /\ \A k \in DOMAIN i_urls :
          LET u == i_urls[k] IN
          (SegmentCategories[u] \cup SubstringCategories[u] = {}) =>
              /\ InList(u, i_review)
              /\ \A j \in DOMAIN i_ready : i_ready[j].url # u
              /\ \A j \in DOMAIN i_downloads :
                    i_downloads[j].by = "auto" => i_downloads[j].url # u
    /\ \A j \in DOMAIN i_ready :
          /\ i_ready[j].folder \in Folders
          /\ i_ready[j].folder \in SegmentCategories[i_ready[j].url]
                                      \cup SubstringCategories[i_ready[j].url]
    /\ \A j \in DOMAIN i_downloads :
          i_downloads[j].by = "auto" =>
              InList([url |-> i_downloads[j].url, folder |-> i_downloads[j].folder], i_ready)

\* an ingest of a link without any category and a link with one finished:
\* the second was downloaded automatically, the first was left to the operator
C20_Witness ==
    /\ d_cmd = "ingest"
    /\ d_out = "finished"
    /\ i_urls = <<"https://hf.co/org/repo/file.bin", "https://hf.co/a/clip_vision_g-vae.bin">>
    /\ i_review = <<"https://hf.co/org/repo/file.bin">>
    /\ i_downloads = <<Download("https://hf.co/a/clip_vision_g-vae.bin", "clip_vision", "auto")>>

-----------------------------------------------------------------------------
(* Claims about the download command (SpecQuote) *)

\* C21: whatever the URL holds (single quotes, double quotes, dollars,
\* backticks, ordinary characters), neither the local nor the remote shell
\* reads a character of it as shell syntax, and wget receives the URL as
\* its argument.
C21_UrlStaysQuoted ==
    /\ q_syntax = {}
    /\ q_pc = "remote" => q_word = q_url

-----------------------------------------------------------------------------
(* Claims about the provisioning wait and the setup (Spec) *)

\* C22: a step of the provisioning wait either keeps waiting without a
\* report (a poll that raised is among these steps), or ends the wait with a
\* usable record the provider returned, or ends it with the timeout report
\* when the budget is spent; it never ends with the provider's error.
C22_PollErrorKeepsWaiting ==
    [][d_pc = "wait" =>
          \/ d_pc' = "wait" /\ d_out' = "-" /\ d_ops' = <<>>
          \/ /\ d_pc' = "ready"
             /\ d_pod' \in Snapshots(Polled)
             /\ Usable(d_pod')
          \/ d_pc' = "done" /\ d_out' = "timed_out" /\ BudgetSpent]_vars

\* the first poll of a deploy raised, and the deploy is still waiting
C22_Witness ==
    /\ d_cmd = "deploy"
    /\ d_pc = "wait"
    /\ w_seen = "none"
    /\ w_elapsed = ErrorSleep

\* C23 (as claimed): while a deploy of rpa.py waits, every poll that does not
\* end the wait, whether it returned a record or raised, is followed by a
\* sleep of 5 seconds.
C23_PollsFiveSecondsApart ==
    [][(d_cmd = "deploy" /\ d_pc = "wait" /\ d_pc' = "wait") =>
          w_elapsed' = w_elapsed + 5]_vars

\* the control-port mappings of a record
ControlMappings(rec) ==
    {rec.ports[i] : i \in {j \in DOMAIN rec.ports : rec.ports[j].privatePort = 22}}

C25_SetupFailureSurfaces ==
    (Deploying /\ d_failed # "-") =>
        d_out \notin {"complete", "create_failed", "provider_error", "timed_out", "-"}

\* C26: a deploy of rpa.py run with the skip-setup flag attempts no remote
\* operation, derives the descriptor from the record the wait returned and
\* reports completion with it.
C26_SkipSetupOnlyDescribes ==
    (d_cmd = "deploy" /\ d_no_setup) =>
        /\ d_ops = <<>>
        /\ d_failed = "-"
        /\ d_pc = "done"
        /\ d_out = "complete"
        /\ d_ssh # NoSsh
        /\ d_ssh.port \in {m.publicPort : m \in ControlMappings(d_pod)}

\* a deploy with the skip-setup flag reported the descriptor of its instance
C26_Witness ==
    /\ d_cmd = "deploy"
    /\ d_no_setup
    /\ d_out = "complete"
    /\ d_ssh = [ip |-> "203.0.113.7", port |-> 10022]

-----------------------------------------------------------------------------
(* Claims about the retry decorator's log and the transfers (SpecRetry) *)

\* C27 (as claimed): every attempt that failed, the last one included, left
\* a warning with its number and its error in the log; when all attempts
\* failed the log holds an error record; a call that returned left no error
\* record.
C27_EveryFailureWarned ==
    /\ \A i \in DOMAIN r_calls :
          r_calls[i].kind = "exc" =>
             \E k \in DOMAIN r_log :
                r_log[k] = [level |-> "warning", attempt |-> i, err |-> r_calls[i]]
    /\ (r_pc = "raised" /\ r_attempt = r_max /\ r_calls[r_max].kind = "exc") =>
          \E k \in DOMAIN r_log : r_log[k].level = "error"
    /\ r_pc = "returned" => \A k \in DOMAIN r_log : r_log[k].level # "error"

\* C28 (as claimed): once download_files has attempted a transfer, the local
\* destination directory exists, whatever became of the transfer.
C28_LocalDirectoryCreated ==
    (r_op = "download_files" /\ r_runs # <<>>) => r_local = "present"

-----------------------------------------------------------------------------
(* Claims about the exit status of the command line (Spec) *)

\* C29 (as claimed): a command that ended with a create failure, a timeout of
\* the provisioning wait, a provider or transport error, or a failed setup
\* step exits with a status other than 0.
C29_ErrorsExitNonZero ==
    (d_pc = "done" /\ (d_out \in {"create_failed", "provider_error", "timed_out",
                                   "called_process_error"} \/ d_failed # "-")) =>
        ExitStatus(d_out) # 0

-----------------------------------------------------------------------------
(* Claims about the manual review of ingest (SpecIngest) *)

\* the decimal numerals of 1 .. N, N the number of configured categories
Numerals == <<"1", "2", "3", "4", "5", "6", "7", "8", "9", "10", "11">>

\* C30: in a step of the manual review, when the operator typed the numeral
\* of k with 1 <= k <= N, the link under review is downloaded to the k-th
\* category of the configured order and nothing else is; when the operator
\* typed 0, nothing is downloaded.
C30_ReviewSelectsKth ==
    [][(d_pc = "review" /\ i_next' = i_next + 1) =>
          LET typed == d_inputs'[Len(d_inputs')] IN
          /\ \A k \in 1..Len(MODEL_FOLDERS) :
                typed = Numerals[k] =>
                   i_downloads' = Append(i_downloads,
                                         Download(i_review[i_next], MODEL_FOLDERS[k], "user"))
          /\ typed = "0" => i_downloads' = i_downloads]_vars

\* the operator typed 11 for a link that no category matched, and the link
\* was downloaded to the eleventh category
C30_Witness ==
    /\ d_cmd = "ingest"
    /\ d_inputs # <<>>
    /\ d_inputs[Len(d_inputs)] = "11"
    /\ i_downloads # <<>>
    /\ i_downloads[Len(i_downloads)] =
          Download("https://hf.co/org/repo/file.bin", "upscale_models", "user")

-----------------------------------------------------------------------------
(* Claims about the stored templates and the order of the setup (Spec) *)

\* C31 (as claimed): the first create request of a deploy names the tier of
\* its template, and after a deploy fell back to the other tier the stored
\* configuration it started from (the entry of TEMPLATES in rpa.py, the
\* module's POD_CONFIG in _deploy_blender.py, which d_config stands for)
\* still names the tier it was loaded with.
C31_FallbackKeepsTemplate ==
    /\ (d_cmd = "deploy" /\ d_creates # <<>>) =>
          d_creates[1].config.cloud_type = TEMPLATES(d_template).cloud_type
    /\ (d_cmd = "blender" /\ Len(d_creates) = 2) =>
          d_config.cloud_type = POD_CONFIG.cloud_type

\* the place of a file in the fixed order of the setup of a template: start
\* script, setup script, environment file
Rank(template, file) ==
    CASE file = TEMPLATES(template).script -> 1
      [] file = TEMPLATES(template).setup_script -> 2
      [] OTHER -> 3

\* C32: the remote operations of the setup of a deploy are uploads in the
\* order start script, setup script, environment file, followed by at most
\* one launch, which comes last; when an upload failed no launch was issued.
C32_UploadsThenLaunch ==
    Deploying =>
        /\ \A i, j \in DOMAIN d_ops :
              i < j =>
                 /\ d_ops[i].op = "upload"
                 /\ (d_cmd = "deploy" /\ d_ops[j].op = "upload") =>
                       Rank(d_template, d_ops[i].arg) < Rank(d_template, d_ops[j].arg)
        /\ d_failed = "upload" => \A i \in DOMAIN d_ops : d_ops[i].op # "launch"

\* the upload of the setup script failed after the start script was sent: the
\* environment file was not sent and nothing was launched
C32_Witness ==
    /\ d_cmd = "deploy"
    /\ d_failed = "upload"
    /\ Len(d_ops) = 2
    /\ d_ops[1].arg = TEMPLATES(d_template).script
    /\ d_ops[2].arg = TEMPLATES(d_template).setup_script

-----------------------------------------------------------------------------
(* Claims about run_background and the bounds of the retry (SpecRetry) *)

\* C33 (as claimed): in one call of run_background the remote side starts
\* the background command at most once, whatever the submissions did.
C33_BackgroundStartedOnce ==
    r_caller = "run_background" =>
        Cardinality({i \in DOMAIN r_runs : r_runs[i].started}) <= 1

-----------------------------------------------------------------------------
(* Claims about the descriptor and the launch of a deploy (Spec) *)

\* C34 (as claimed): the descriptor a deploy derives after its wait takes
\* its port and address from a mapping of private port 22 that is flagged
\* publicly reachable.
C34_DescriptorFromReachable ==
    (Deploying /\ d_ssh # NoSsh) =>
        \E m \in ControlMappings(d_pod) :
            /\ m.isIpPublic
            /\ d_ssh.port = m.publicPort
            /\ m.ip # NoIp => d_ssh.ip = m.ip

\* C35 (as claimed): a deploy launches a start script only after it uploaded
\* that script in the same run.
C35_LaunchOnlyAfterUpload ==
    Deploying =>
        \A i \in DOMAIN d_ops :
            d_ops[i].op = "launch" =>
               \E j \in 1..(i - 1) :
                  d_ops[j].op = "upload" /\ d_ops[j].arg = d_ops[i].arg

-----------------------------------------------------------------------------
(* Claims about the review and the classification of ingest (SpecIngest) *)

\* C36 (as claimed): in a step of the manual review, when what the operator
\* typed is not the numeral of a number in 1 .. N, nothing is downloaded.
C36_ReviewIgnoresOtherInput ==
    [][(d_pc = "review" /\ i_next' = i_next + 1) =>
          LET typed == d_inputs'[Len(d_inputs')] IN
          (\A k \in 1..Len(MODEL_FOLDERS) : typed # Numerals[k]) =>
              i_downloads' = i_downloads]_vars

-----------------------------------------------------------------------------
(* Claims about the bounds of the retry decorator (SpecRetry) *)

\* C37: for max_attempts >= 1 the wrapped function is never invoked more
\* than max_attempts times and never after an invocation that returned; a
\* call that has ended invoked it at least once, and its sleeps are as many
\* as the failed invocations that another invocation followed, so none
\* comes after the last failure.
C37_RetryBounds ==
    r_max >= 1 =>
        /\ Len(r_calls) <= r_max
        /\ \A i \in 1..(Len(r_calls) - 1) : r_calls[i].kind = "exc"
        /\ Len(r_sleeps) <= Len(r_calls)
        /\ r_pc \in {"returned", "raised"} =>
              /\ Len(r_calls) >= 1
              /\ Len(r_sleeps) = Len(r_calls) - 1

\* every one of three invocations failed: two sleeps, then the raise
C37_Witness ==
    /\ r_pc = "raised"
    /\ r_max = 3
    /\ Len(r_calls) = 3
    /\ \A i \in 1..3 : r_calls[i].kind = "exc"
    /\ Len(r_sleeps) = 2

-----------------------------------------------------------------------------
(* Claims about the termination of the provisioning wait (SpecWait) *)

\* C38: a wait that has begun ends, with a usable record or with the timeout
\* report; and once the budget is spent no further poll is made: the next
\* step of the wait is the timeout.
C38_WaitTerminates ==
    /\ (d_pc = "wait") ~> \/ d_pc = "ready" /\ Usable(d_pod)
                          \/ d_pc = "done" /\ d_out = "timed_out"
    /\ [][BudgetSpent => (d_pc' = "done" /\ w_seen' = w_seen /\ w_elapsed' = w_elapsed)]_vars

\* the wait of rpa.py ran out after polls that raised and polls that
\* answered: the last sleep took the clock past the budget
C38_Witness ==
    /\ d_cmd = "deploy"
    /\ d_pc = "done"
    /\ d_out = "timed_out"
    /\ w_elapsed > Timeout

-----------------------------------------------------------------------------
(* Claims about terminate (SpecTerminate) *)

\* C39: a command issues terminate_pod for an id only when the operator
\* answered y (lower-cased, as the code reads it) at the confirmation prompt
\* that named this id; when the answer is another one, or there was no prompt
\* (nothing selected, the listing failed, nothing runs), no request is issued
\* and the provider holds the instances it held before.
C39_TerminateOnlyConfirmed ==
    [][(d_pc = "idle" /\ d_cmd' = "terminate") =>
          /\ t_req' # NoPid => (t_pid' = t_req' /\ Lower(t_confirm') = "y")
          /\ d_terms' = (IF t_req' # NoPid THEN 1 ELSE 0)
          /\ (t_pid' = NoPid \/ Lower(t_confirm') # "y") =>
                (t_req' = NoPid /\ pods' = pods)
          /\ \A i \in DOMAIN pods : pods[i].id # t_req' =>
                \E j \in DOMAIN pods' : pods'[j] = pods[i]]_vars

\* the operator chose the second of several running instances by its
\* number and answered y: this instance, and no other, is gone
C39_Witness ==
    /\ d_cmd = "terminate"
    /\ Len(d_running) >= 2
    /\ d_inputs = <<"2", "y">>
    /\ t_req = d_running[2]
    /\ d_out = "terminated"
    /\ \A i \in DOMAIN pods : pods[i].id # t_req

-----------------------------------------------------------------------------
(* Claims about the categorization of ingest (SpecIngest) *)

\* the URLs of ready_to_download, in its order
AutoUrls == [k \in DOMAIN i_ready |-> i_ready[k].url]

\* how often u occurs in a list
Occurrences(u, list) == Cardinality({k \in DOMAIN list : list[k] = u})

\* C40: the categorization splits the batch in two: every URL of urls is in
\* ready_to_download or in needs_review and never in both, as often as it is
\* in urls, and each of the two lists holds its URLs in the order of urls;
\* neither list holds a URL that is not in urls.
C40_CategorizationPartitions ==
    d_cmd = "ingest" =>
       LET auto == {AutoUrls[k] : k \in DOMAIN AutoUrls}
           manual == {i_review[k] : k \in DOMAIN i_review}
       IN
       /\ auto \cap manual = {}
       /\ auto \cup manual = {i_urls[k] : k \in DOMAIN i_urls}
       /\ \A u \in auto \cup manual :
             Occurrences(u, i_urls) = Occurrences(u, AutoUrls) + Occurrences(u, i_review)
       /\ AutoUrls = SelectSeq(i_urls, LAMBDA u : u \in auto)
       /\ i_review = SelectSeq(i_urls, LAMBDA u : u \in manual)

\* a batch whose first link needs review and whose second one is
\* categorized automatically
C40_Witness ==
    /\ d_cmd = "ingest"
    /\ Len(i_urls) = 2
    /\ i_review = <<i_urls[1]>>
    /\ AutoUrls = <<i_urls[2]>>

====
